---- MODULE Spec2Model ----
(***************************************************************************)
(* A model of the yukino-net rendezvous router: the Router                 *)
(* (libraries/router/router.go), its managed connection (routerConnection) *)
(* and the Listener and Dialer clients (libraries/router/client.go).       *)
(*                                                                         *)
(* Every TCP transport is a pair of FIFO queues, c2r (client to Router)    *)
(* and r2c (Router to client), with one open flag per end.  Each goroutine *)
(* of the program is a small state machine whose position is a variable.   *)
(***************************************************************************)
EXTENDS Integers, Sequences, FiniteSets, TLC

\* ------------------------------------------------------------------ bounds
\* Each specification below runs one scenario; these are the sizes of the
\* scenarios.
MaxListens == 2      \* Spec: Listen transports opened
MaxDials == 1        \* Spec: Dial transports opened
ManyDials == 2       \* SpecDial: Dial transports opened
MaxAccepts == 2      \* SpecDial, SpecBridge: Accept() calls on a listener
MaxBytes == 2        \* SpecBridge: payload bytes each end of a bridge writes
FairAccepts == 1     \* SpecFair: Accept() calls on a listener
FairBytes == 1       \* SpecFair: payload bytes each end of a bridge writes
FairChannels == 1    \* SpecFair: channel names in use
NumChannels == 2     \* the other specifications: channel names in use
MaxCloses == 2       \* SpecClose: repeated Close() calls on a listener
MaxTime == 2         \* SpecTime, SpecKeys: clock ticks
MaxKeys == 1         \* SpecKeys: keys registered
MaxBridges == 2      \* SpecBridges: Bridge transports opened by other peers
NumWriters == 2      \* SpecConn: goroutines writing on one managed connection
MaxWrites == 3       \* SpecConn: writeFrame calls on the managed connection
MaxInflights == 2    \* SpecSvc: the MaxInflights given to CreateServerContext
NumRequests == 3     \* SpecSvc: requests submitted to the context
MaxRules == 2        \* SpecKeys: rules of a key

MaxConns == MaxListens + 2 * ManyDials
Conns == 1..MaxConns
Channels == 1..NumChannels
NoConn == 0
NoChannel == 0

\* proto.go: the frame types
Dial == "Dial"
Listen == "Listen"
Bridge == "Bridge"
Nop == "Nop"
Close == "Close"

Frame(t, id, ch) == [Type |-> t, ConnectionID |-> id, Channel |-> ch]
nopFrame == Frame(Nop, 0, 0)
Data(b) == [Type |-> "Data", ConnectionID |-> b, Channel |-> 0]

VARIABLES
  nconn,            \* transports opened so far (they are numbered 1..nconn)
  kind,             \* kind[c]: "none", "L" (listener control), "D" (dial), "B" (bridge)
  chan,             \* chan[c]: the channel named by the client that opened c
  good,             \* good[c]: the Authority allows the first frame of c
  c2r, r2c,         \* bytes in flight on transport c, as frames and payload bytes
  cOpen, rOpen,     \* the client's / the Router's end of transport c is open
  deadline,         \* a deadline is set on the Router's end of c
  isclosed,         \* routerConnection.isclosed (and its Closed signal)
  pc,               \* position of the Router's handleConnection goroutine for c
  peer,             \* handler local: the routerConnection it talks to
  connectionID,     \* handler local: the id of handleDial / handleBridge
  mu,               \* holder of Router.mu (NoConn when free)
  receiverTable,    \* Router.receiverTable: channel -> control connection
  inflightTable,    \* Router.inflightTable: id -> dial connection
  nextConnectionID, \* Router.nextConnectionID
  checker,          \* position of the SpawnConnectionChecker goroutine of c
  copyBD, copyDB,   \* the two io.Copy goroutines of the bridge handler of c
  cancelled,        \* ctx of handleBridge is done
  lstate,           \* listener client: constructor / controller position
  isClosed,         \* Listener.isClosed (acceptorChan and closedSig are closed)
  activeAcceptors,  \* Listener.activeAcceptors
  accepts,          \* Accept() calls made so far on the listener
  btask,            \* position of a listener's bridge goroutine (per B transport)
  owner,            \* owner[b]: the listener control transport that spawned b
  dstate,           \* position of Client.Dial (per D transport)
  sent, recv,       \* payload bytes the application wrote / read on its end of c
  eof,              \* the application's Read on c returned end-of-stream
  hist,             \* history: what has happened, for stating the properties
  wframe,           \* codec: the frame handed to writeFrame
  wire,             \* codec: the bytes of the stream a reader is given
  rframe,           \* codec: what readFrame returned
  cstate,           \* codec: position of the writer and the reader
  Table,            \* KeyStore.Table: hashed key -> SessionKey
  cache,            \* KeyStore.cache: serialized key -> hashed key
  now,              \* the clock
  call,             \* KeyStore: the CheckPermission call in progress and its result
  clean,            \* KeyStore: the CleanUp call in progress and what the last one did
  mc,               \* one routerConnection with the goroutines that write on it and close it
  svc,              \* one CommandServiceContext and the requests submitted to it
  zl                \* marshal: the stream given to ReadWithZlib and what the call did

codecVars == <<wframe, wire, rframe, cstate>>
keyVars == <<Table, cache, call, clean>>
libVars == <<codecVars, keyVars, now, mc, svc, zl>>

sysVars == <<nconn, kind, chan, good, c2r, r2c, cOpen, rOpen, deadline, isclosed,
             pc, peer, connectionID, mu, receiverTable, inflightTable,
             nextConnectionID, checker, copyBD, copyDB, cancelled, lstate,
             isClosed, activeAcceptors, accepts, btask, owner, dstate, sent,
             recv, eof, hist>>

vars == <<sysVars, libVars>>

netVars == <<c2r, r2c, cOpen, rOpen, deadline>>
routerVars == <<isclosed, pc, peer, connectionID, mu, receiverTable,
                inflightTable, nextConnectionID, checker>>
spliceVars == <<copyBD, copyDB, cancelled>>
listenerVars == <<lstate, isClosed, activeAcceptors, accepts, btask, owner>>
appVars == <<sent, recv, eof>>
identVars == <<nconn, kind, chan, good>>

\* ------------------------------------------------------------ transports
\* net.Conn.Write on the Router's end of c: it fails on an end the Router has
\* closed; once the client has closed its end the kernel may still accept the
\* bytes (they are dropped) or report the reset.
RouterWrite(c) == IF ~rOpen[c] THEN {FALSE}
                  ELSE IF ~cOpen[c] THEN {TRUE, FALSE} ELSE {TRUE}
r2cAfter(c, f, ok) == IF ok /\ cOpen[c] THEN [r2c EXCEPT ![c] = Append(@, f)] ELSE r2c

\* net.Conn.Write on the client's end of c.
ClientWrite(c) == IF ~cOpen[c] THEN {FALSE}
                  ELSE IF ~rOpen[c] THEN {TRUE, FALSE} ELSE {TRUE}
c2rAfter(c, f, ok) == IF ok /\ rOpen[c] THEN [c2r EXCEPT ![c] = Append(@, f)] ELSE c2r

\* A Read on the Router's end of c returns data, or fails: on a closed end, at
\* end-of-stream, or when the deadline set on c passes with nothing to read.
RouterCanRead(c) == rOpen[c] /\ c2r[c] # <<>>
RouterReadFails(c) == ~rOpen[c] \/ (c2r[c] = <<>> /\ (~cOpen[c] \/ deadline[c]))

\* A Read on the client's end of c (the clients set no deadline).
ClientCanRead(c) == cOpen[c] /\ r2c[c] # <<>>
ClientReadFails(c) == ~cOpen[c] \/ (r2c[c] = <<>> /\ ~rOpen[c])

\* bin.go readFrame: a frame of type Close is returned as an error.
readFrameOK(f) == f.Type # Close

\* ------------------------------------------------------- routerConnection
\* routerConnection.close() on every connection of S: the first call closes the
\* transport and publishes Closed; later calls change nothing.
closeFlagLost(S) == isclosed
closeFlag(S) == [x \in Conns |-> isclosed[x] \/ x \in S]

\* close(), the test under the mutex (part_002 22-26).
skipNever(x) == FALSE
skipClose(x) == isclosed[x]

\* close(), part_002 27-28: Connection.Close() and close(conn.Closed).
closeROpen(S) == [x \in Conns |-> rOpen[x] /\ (skipClose(x) \/ x \notin S)]

\* History of close() called on every connection of S: h.closes counts the
\* executions of part_002 27-28, h.reclosed holds the connections on which
\* close() was called when they were closed already.
callClose(h, S) ==
  [h EXCEPT !.closes = [x \in Conns |->
                          IF x \in S /\ ~skipClose(x) THEN @[x] + 1 ELSE @[x]],
            !.reclosed = @ \cup {x \in S : isclosed[x]}]

\* Bytes that reached an end after it was closed are discarded.
Drop(q, open) == [x \in Conns |-> IF open[x] THEN q[x] ELSE <<>>]

\* routerConnection.writeFrame: refused once closed, else the codec's write.
connWrite(c) == IF isclosed[c] THEN {FALSE} ELSE RouterWrite(c)

\* net.Conn.Close() by handleConnection's defer.
connLeak(c) == rOpen
connClose(c) == [rOpen EXCEPT ![c] = FALSE]

\* ------------------------------------------------------------------- Init
\* NewRouter (router.go 75-82): empty tables, nextConnectionID zero; no
\* transport has been opened yet.
InitRouter ==
  /\ nconn = 0
  /\ kind = [c \in Conns |-> "none"]
  /\ chan = [c \in Conns |-> NoChannel]
  /\ good = [c \in Conns |-> FALSE]
  /\ c2r = [c \in Conns |-> <<>>]
  /\ r2c = [c \in Conns |-> <<>>]
  /\ cOpen = [c \in Conns |-> FALSE]
  /\ rOpen = [c \in Conns |-> FALSE]
  /\ deadline = [c \in Conns |-> FALSE]
  /\ isclosed = [c \in Conns |-> FALSE]
  /\ pc = [c \in Conns |-> "none"]
  /\ peer = [c \in Conns |-> NoConn]
  /\ connectionID = [c \in Conns |-> 0]
  /\ mu = NoConn
  /\ receiverTable = [ch \in Channels |-> NoConn]
  /\ inflightTable = <<>>
  /\ nextConnectionID = 0
  /\ checker = [c \in Conns |-> "none"]
  /\ copyBD = [c \in Conns |-> "none"]
  /\ copyDB = [c \in Conns |-> "none"]
  /\ cancelled = [c \in Conns |-> FALSE]
  /\ lstate = [c \in Conns |-> "none"]
  /\ isClosed = [c \in Conns |-> FALSE]
  /\ activeAcceptors = [c \in Conns |-> 0]
  /\ accepts = [c \in Conns |-> 0]
  /\ btask = [c \in Conns |-> "none"]
  /\ owner = [c \in Conns |-> NoConn]
  /\ dstate = [c \in Conns |-> "none"]
  /\ sent = [c \in Conns |-> <<>>]
  /\ recv = [c \in Conns |-> <<>>]
  /\ eof = [c \in Conns |-> FALSE]
  /\ hist = [bound |-> {}, allocated |-> {}, ackedB |-> {}, lateDial |-> {},
             busy |-> {}, displaced |-> {}, userClosed |-> {},
             chanCloses |-> [c \in Conns |-> 0],
             closeCalls |-> [c \in Conns |-> 0],
             closes |-> [c \in Conns |-> 0], reclosed |-> {},
             deadlineAt |-> <<>>,
             dialErr |-> [c \in Conns |-> "pending"]]

\* No frame is being written or read.
NoFrame == [Type |-> "none"]
CodecIdle ==
  /\ wframe = NoFrame
  /\ wire = <<>>
  /\ rframe = NoFrame
  /\ cstate = "idle"

\* CreateKeyStore (client.go 733-739): empty table and cache; no call yet.
CreateKeyStore ==
  /\ Table = <<>>
  /\ cache = <<>>
  /\ call = [state |-> "idle"]
  /\ clean = [state |-> "idle", removed |-> {}, kept |-> {}]

\* newConn (part_002 41-48) for the connection whose writers are followed
\* step by step: open, mutex free, nothing written; no goroutine is in a call.
Writers == 1..NumWriters
NoWriter == 0
newConn ==
  mc = [mu |-> NoWriter, isclosed |-> FALSE, open |-> TRUE, closed |-> 0,
        out |-> <<>>, calls |-> 0, log |-> <<>>,
        task |-> [t \in Writers |-> [pc |-> "idle", frame |-> NoFrame, k |-> 0,
                                     err |-> "none", at |-> 0]]]

\* CreateServerContext (part_003 354-365): the token channel is empty; no
\* request has been submitted.
Requests == 1..NumRequests
CreateServerContext ==
  svc = [tokens |-> 0,
         req |-> [r \in Requests |-> "new"],
         done |-> [r \in Requests |-> 0]]

\* No stream has been given to ReadWithZlib.
ZlibIdle == zl = [state |-> "idle"]

Init ==
  /\ InitRouter
  /\ CodecIdle
  /\ CreateKeyStore
  /\ now = 0
  /\ newConn
  /\ CreateServerContext
  /\ ZlibIdle

\* The transports of one kind opened so far.
Opened(k) == {c \in Conns : kind[c] = k}

\* A client opens transport number nconn+1 and writes its first frame.
\* (net.Dial / tls.Dial, then writeFrame; the Router's Serve loop accepts it
\* and starts handleConnection, router.go 239-251.)
OpenTransport(c, k, ch, g, f) ==
  /\ nconn < MaxConns
  /\ c = nconn + 1
  /\ nconn' = c
  /\ kind' = [kind EXCEPT ![c] = k]
  /\ chan' = [chan EXCEPT ![c] = ch]
  /\ good' = [good EXCEPT ![c] = g]
  /\ c2r' = [c2r EXCEPT ![c] = <<f>>]
  /\ cOpen' = [cOpen EXCEPT ![c] = TRUE]
  /\ rOpen' = [rOpen EXCEPT ![c] = TRUE]
  /\ pc' = [pc EXCEPT ![c] = "greet"]
  /\ UNCHANGED <<r2c, deadline>>

\* ----------------------------------------------------- Router: first frame
\* Authority.CheckPermission (router.go 222): the Authority is external; what it
\* answers for the first frame and credential of transport c is good[c].
AllowAll(c) == TRUE
CheckPermission(c) == good[c]

\* Authority.GetExpirationTime (router.go 32-33): the Authority is external;
\* the credential of every transport expires at clock value CredentialExpiry.
CredentialExpiry == 1
GetExpirationTime(c) == CredentialExpiry

\* handleConnection has read a first frame of type t that the Authority allows.
Greeted(c, t) ==
  /\ pc[c] = "greet"
  /\ RouterCanRead(c)
  /\ Head(c2r[c]).Type = t
  /\ CheckPermission(c)

\* handleConnection (router.go 208-225): the Authority denies the first frame;
\* the deferred conn.Close() closes the transport.
AuthDenied(c) ==
  /\ pc[c] = "greet"
  /\ RouterCanRead(c)
  /\ ~CheckPermission(c)
  /\ pc' = [pc EXCEPT ![c] = "done"]
  /\ rOpen' = connClose(c)
  /\ c2r' = Drop(c2r, rOpen')
  /\ UNCHANGED <<identVars, r2c, cOpen, deadline, isclosed, peer, connectionID,
                 mu, receiverTable, inflightTable, nextConnectionID, checker,
                 spliceVars, listenerVars, dstate, appVars, libVars, hist>>

\* ------------------------------------------------------ Router: handleListen
\* The deferred function of handleListen (router.go 112-118).
unbindAny(tbl, ch, c) == [tbl EXCEPT ![ch] = NoConn]
unbind(tbl, ch, c) == IF tbl[ch] = c THEN [tbl EXCEPT ![ch] = NoConn] ELSE tbl

\* router.go 109: bind the channel to the new control connection.
bind(tbl, ch, c) == [tbl EXCEPT ![ch] = c]

\* handleListen, channel unbound (router.go 96-100, 109-120): bind under the lock,
\* start the connection checker, wait for Closed.
ListenBind(c) ==
  /\ Greeted(c, Listen)
  /\ mu = NoConn
  /\ receiverTable[Head(c2r[c]).Channel] = NoConn
  /\ receiverTable' = bind(receiverTable, Head(c2r[c]).Channel, c)
  /\ c2r' = [c2r EXCEPT ![c] = Tail(@)]
  /\ checker' = [checker EXCEPT ![c] = "run"]
  /\ pc' = [pc EXCEPT ![c] = "listen_wait"]
  /\ hist' = [hist EXCEPT !.bound = @ \cup {<<Head(c2r[c]).Channel, c>>}]
  /\ UNCHANGED <<identVars, r2c, cOpen, rOpen, deadline, isclosed, peer,
                 connectionID, mu, inflightTable, nextConnectionID,
                 spliceVars, listenerVars, dstate, appVars, libVars>>

\* router.go 107: the connection closed when a probe fails is the holder.
displacedNone(h) == {}
displaced(h) == {h}

\* The holder h failed its probe (router.go 106-110, 120): close it, bind the
\* channel to c, release the lock, start c's checker.
Displace(c, h, ch, q) ==
  /\ isclosed' = closeFlag(displaced(h))
  /\ rOpen' = closeROpen(displaced(h))
  /\ c2r' = Drop(q, rOpen')
  /\ receiverTable' = bind(receiverTable, ch, c)
  /\ deadline' = [deadline EXCEPT ![h] = FALSE]
  /\ mu' = NoConn
  /\ checker' = [checker EXCEPT ![c] = "run"]
  /\ pc' = [pc EXCEPT ![c] = "listen_wait"]
  /\ hist' = callClose([hist EXCEPT !.bound = @ \cup {<<ch, c>>},
                                    !.displaced = @ \cup {h}], displaced(h))

BusyDisplaces(c, h, q) == Displace(c, h, chan[c], q)

\* The holder answered its probe (router.go 101-105): release the lock and
\* return an error; handleConnection's defer closes the new transport.
Busy(c, h, q) ==
  /\ mu' = NoConn
  /\ pc' = [pc EXCEPT ![c] = "done"]
  /\ rOpen' = connClose(c)
  /\ c2r' = Drop(q, rOpen')
  /\ deadline' = [deadline EXCEPT ![h] = FALSE]
  /\ hist' = [hist EXCEPT !.busy = @ \cup {c}]
  /\ UNCHANGED <<isclosed, receiverTable, checker>>

\* handleListen, channel bound (router.go 99-101; probe, part_002 51-56): take
\* the lock and start probing the holder: set the deadline, write a Nop.
ListenProbeStart(c) ==
  /\ Greeted(c, Listen)
  /\ mu = NoConn
  /\ receiverTable[Head(c2r[c]).Channel] # NoConn
  /\ LET ch == Head(c2r[c]).Channel
         h == receiverTable[ch]
         q == [c2r EXCEPT ![c] = Tail(@)]
     IN \E ok \in connWrite(h) :
          /\ r2c' = r2cAfter(h, nopFrame, ok)
          /\ peer' = [peer EXCEPT ![c] = h]
          /\ IF ok
             THEN /\ mu' = c
                  /\ deadline' = [deadline EXCEPT ![h] = TRUE]
                  /\ pc' = [pc EXCEPT ![c] = "probe_read"]
                  /\ c2r' = q
                  /\ UNCHANGED <<isclosed, rOpen, receiverTable, checker, hist>>
             ELSE Displace(c, h, ch, q)
  /\ UNCHANGED <<identVars, cOpen, connectionID, inflightTable,
                 nextConnectionID, spliceVars, listenerVars, dstate, appVars, libVars>>

\* probe, second half (part_002 53, 57), still under Router.mu: read one frame
\* from the holder.  Then handleListen either fails (router.go 101-105) or
\* displaces the holder (106-110).
ListenProbeRead(c) ==
  /\ pc[c] = "probe_read"
  /\ LET h == peer[c]
         ch == chan[c]
     IN \/ /\ RouterCanRead(h)
           /\ IF readFrameOK(Head(c2r[h]))
              THEN Busy(c, h, [c2r EXCEPT ![h] = Tail(@)])
              ELSE Displace(c, h, ch, [c2r EXCEPT ![h] = Tail(@)])
        \/ /\ RouterReadFails(h)
           /\ Displace(c, h, ch, c2r)
  /\ UNCHANGED <<identVars, r2c, cOpen, peer, connectionID, inflightTable,
                 nextConnectionID, spliceVars, listenerVars, dstate, appVars, libVars>>

\* handleListen returns once Closed fires (router.go 122, then the deferred
\* unbind 112-118 and handleConnection's conn.Close()).
ListenReturn(c) ==
  /\ pc[c] = "listen_wait"
  /\ isclosed[c]
  /\ mu = NoConn
  /\ receiverTable' = unbind(receiverTable, chan[c], c)
  /\ pc' = [pc EXCEPT ![c] = "done"]
  /\ UNCHANGED <<identVars, netVars, isclosed, peer, connectionID, mu,
                 inflightTable, nextConnectionID, checker, spliceVars,
                 listenerVars, dstate, appVars, libVars, hist>>

\* --------------------------------------------- SpawnConnectionChecker, probe
\* The ticker fires (part_002 67-68): probe sets the deadline and writes a Nop
\* (51-56); a failed write fails the probe and the checker closes and returns.
CheckerTick(c) ==
  /\ checker[c] = "run"
  /\ \E ok \in connWrite(c) :
       /\ r2c' = r2cAfter(c, nopFrame, ok)
       /\ IF ok
          THEN /\ checker' = [checker EXCEPT ![c] = "probing"]
               /\ deadline' = [deadline EXCEPT ![c] = TRUE]
               /\ UNCHANGED <<isclosed, rOpen, c2r, hist>>
          ELSE /\ checker' = [checker EXCEPT ![c] = "stopped"]
               /\ deadline' = [deadline EXCEPT ![c] = FALSE]
               /\ isclosed' = closeFlag({c})
               /\ hist' = callClose(hist, {c})
               /\ rOpen' = closeROpen({c})
               /\ c2r' = Drop(c2r, rOpen')
  /\ UNCHANGED <<identVars, cOpen, pc, peer, connectionID, mu, receiverTable,
                 inflightTable, nextConnectionID, spliceVars, listenerVars,
                 dstate, appVars, libVars>>

\* probe reads the answer (part_002 57); on failure the checker closes the
\* connection and returns (68-71).  The deferred SetDeadline clears the deadline.
\* afterFailure is where the loop stands after a failed probe (70: return).
nextRound == "run"
afterFailure == "stopped"
CheckerProbeRead(c) ==
  /\ checker[c] = "probing"
  /\ deadline' = [deadline EXCEPT ![c] = FALSE]
  /\ \/ /\ RouterCanRead(c)
        /\ readFrameOK(Head(c2r[c]))
        /\ c2r' = [c2r EXCEPT ![c] = Tail(@)]
        /\ checker' = [checker EXCEPT ![c] = "run"]
        /\ UNCHANGED <<isclosed, rOpen, hist>>
     \/ /\ \/ RouterReadFails(c)
           \/ RouterCanRead(c) /\ ~readFrameOK(Head(c2r[c]))
        /\ isclosed' = closeFlag({c})
        /\ hist' = callClose(hist, {c})
        /\ rOpen' = closeROpen({c})
        /\ c2r' = Drop(c2r, rOpen')
        /\ checker' = [checker EXCEPT ![c] = afterFailure]
  /\ UNCHANGED <<identVars, r2c, cOpen, pc, peer, connectionID, mu,
                 receiverTable, inflightTable, nextConnectionID, spliceVars,
                 listenerVars, dstate, appVars, libVars>>

\* The checker sees Closed (part_002 72-74), calls close() and returns.
CheckerClosed(c) ==
  /\ checker[c] = "run"
  /\ isclosed[c]
  /\ checker' = [checker EXCEPT ![c] = "stopped"]
  /\ isclosed' = closeFlag({c})
  /\ rOpen' = closeROpen({c})
  /\ hist' = callClose(hist, {c})
  /\ UNCHANGED <<identVars, r2c, c2r, cOpen, deadline, pc, peer, connectionID,
                 mu, receiverTable, inflightTable, nextConnectionID, spliceVars,
                 listenerVars, dstate, appVars, libVars>>

\* -------------------------------------------------------- Router: handleDial
\* router.go 142: nextConnectionID++ (the bound on dials keeps it far below 2^64).
SameID(n) == n
NextID(n) == n + 1

\* map insert and delete on inflightTable.
Insert(tbl, id, c) == [i \in DOMAIN tbl \cup {id} |-> IF i = id THEN c ELSE tbl[i]]
KeepEntry(tbl, id) == tbl
Delete(tbl, id) == [i \in DOMAIN tbl \ {id} |-> tbl[i]]

\* handleDial, channel not registered (router.go 127-140): return an error;
\* handleConnection's defer closes the transport.
DialNoChannel(c) ==
  /\ Greeted(c, Dial)
  /\ mu = NoConn
  /\ receiverTable[Head(c2r[c]).Channel] = NoConn
  /\ pc' = [pc EXCEPT ![c] = "done"]
  /\ rOpen' = connClose(c)
  /\ c2r' = Drop(c2r, rOpen')
  /\ deadline' = [deadline EXCEPT ![c] = TRUE]
  /\ hist' = [hist EXCEPT !.dialErr[c] = "not registered"]
  /\ UNCHANGED <<identVars, r2c, cOpen, isclosed, peer, connectionID, mu,
                 receiverTable, inflightTable, nextConnectionID, checker,
                 spliceVars, listenerVars, dstate, appVars, libVars>>

\* router.go 20, 133: the dial timeout, in clock ticks, and the deadline that
\* handleDial passes to SetDeadline.
DialConnectionTimeout == 1
dialDeadline == now + DialConnectionTimeout

\* handleDial, channel registered (router.go 133-144): set the dial deadline,
\* allocate the id and insert the inflight entry under the lock.
DialAlloc(c) ==
  /\ Greeted(c, Dial)
  /\ mu = NoConn
  /\ receiverTable[Head(c2r[c]).Channel] # NoConn
  /\ deadline' = [deadline EXCEPT ![c] = TRUE]
  /\ peer' = [peer EXCEPT ![c] = receiverTable[Head(c2r[c]).Channel]]
  /\ connectionID' = [connectionID EXCEPT ![c] = nextConnectionID]
  /\ nextConnectionID' = NextID(nextConnectionID)
  /\ inflightTable' = Insert(inflightTable, nextConnectionID, c)
  /\ c2r' = [c2r EXCEPT ![c] = Tail(@)]
  /\ pc' = [pc EXCEPT ![c] = "dial_write"]
  /\ hist' = [hist EXCEPT !.allocated = @ \cup {nextConnectionID},
                          !.deadlineAt = Insert(@, nextConnectionID, dialDeadline)]
  /\ UNCHANGED <<identVars, r2c, cOpen, rOpen, isclosed, mu, receiverTable,
                 checker, spliceVars, listenerVars, dstate, appVars, libVars>>

\* handleDial writes Bridge(id) on the listener's control connection
\* (router.go 151-158); when the write fails it closes the control connection
\* (156): dead(c) is the connection it closes.
leftOpen(c) == {}
dead(c) == {peer[c]}
DialWriteBridge(c) ==
  /\ pc[c] = "dial_write"
  /\ \E ok \in connWrite(peer[c]) :
       /\ r2c' = r2cAfter(peer[c], Frame(Bridge, connectionID[c], NoChannel), ok)
       /\ IF ok
          THEN /\ pc' = [pc EXCEPT ![c] = "dial_wait"]
               /\ UNCHANGED <<isclosed, rOpen, c2r, hist>>
          ELSE /\ pc' = [pc EXCEPT ![c] = "dial_failed"]
               /\ isclosed' = closeFlag(dead(c))
               /\ hist' = callClose(hist, dead(c))
               /\ rOpen' = closeROpen(dead(c))
               /\ c2r' = Drop(c2r, rOpen')
  /\ UNCHANGED <<identVars, cOpen, deadline, peer, connectionID, mu,
                 receiverTable, inflightTable, nextConnectionID, checker,
                 spliceVars, listenerVars, dstate, appVars, libVars>>

\* handleDial returns: with the write's error after the failed write (157),
\* or with nil once the dial connection's Closed fires (160-161).  The
\* deferred function deletes the inflight entry under the lock (146-150) and
\* handleConnection closes the transport.
DialHandlerReturn(c) ==
  /\ \/ pc[c] = "dial_failed"
     \/ pc[c] = "dial_wait" /\ isclosed[c]
  /\ mu = NoConn
  /\ inflightTable' = Delete(inflightTable, connectionID[c])
  /\ pc' = [pc EXCEPT ![c] = "done"]
  /\ rOpen' = connClose(c)
  /\ c2r' = Drop(c2r, rOpen')
  /\ hist' = [hist EXCEPT !.dialErr[c] =
                IF pc[c] = "dial_failed" THEN "write failed" ELSE "nil"]
  /\ UNCHANGED <<identVars, r2c, cOpen, deadline, isclosed, peer, connectionID,
                 mu, receiverTable, nextConnectionID, checker, spliceVars,
                 listenerVars, dstate, appVars, libVars>>

\* ------------------------------------------------------ Router: handleBridge
\* A peer other than a listener's bridge goroutine opens a transport and
\* writes Bridge(id) (the Router's Serve loop takes every connection,
\* router.go 239-251, 230-231).
BridgeNew(c, id, max) ==
  /\ Cardinality({b \in Opened("B") : owner[b] = NoConn}) < max
  /\ OpenTransport(c, "B", NoChannel, TRUE, Frame(Bridge, id, NoChannel))
  /\ connectionID' = [connectionID EXCEPT ![c] = id]
  /\ UNCHANGED <<isclosed, peer, mu, receiverTable, inflightTable,
                 nextConnectionID, checker, spliceVars, listenerVars, dstate,
                 appVars, libVars, hist>>

\* handleBridge, no inflight entry for the id (router.go 170-176).
BridgeNoEntry(c) ==
  /\ Greeted(c, Bridge)
  /\ mu = NoConn
  /\ Head(c2r[c]).ConnectionID \notin DOMAIN inflightTable
  /\ pc' = [pc EXCEPT ![c] = "done"]
  /\ rOpen' = connClose(c)
  /\ c2r' = Drop(c2r, rOpen')
  /\ UNCHANGED <<identVars, r2c, cOpen, deadline, isclosed, peer, connectionID,
                 mu, receiverTable, inflightTable, nextConnectionID, checker,
                 spliceVars, listenerVars, dstate, appVars, libVars, hist>>

\* handleBridge removes the inflight entry under the lock (router.go 170-173).
BridgeMatch(c) ==
  /\ Greeted(c, Bridge)
  /\ mu = NoConn
  /\ Head(c2r[c]).ConnectionID \in DOMAIN inflightTable
  /\ peer' = [peer EXCEPT ![c] = inflightTable[Head(c2r[c]).ConnectionID]]
  /\ connectionID' = [connectionID EXCEPT ![c] = Head(c2r[c]).ConnectionID]
  /\ inflightTable' = Delete(inflightTable, Head(c2r[c]).ConnectionID)
  /\ c2r' = [c2r EXCEPT ![c] = Tail(@)]
  /\ pc' = [pc EXCEPT ![c] = "bridge_ack_dialer"]
  /\ UNCHANGED <<identVars, r2c, cOpen, rOpen, deadline, isclosed, mu,
                 receiverTable, nextConnectionID, checker, spliceVars,
                 listenerVars, dstate, appVars, libVars, hist>>

\* router.go 177: SetDeadline(time.Time{}) on the dialer's transport.
keepDeadline(d) == deadline
clearDeadline(d) == [deadline EXCEPT ![d] = FALSE]

\* handleBridge clears the dialer's deadline and writes the Bridge
\* acknowledgement to the dialer (router.go 177-183).
BridgeAckDialer(c) ==
  /\ pc[c] = "bridge_ack_dialer"
  /\ deadline' = clearDeadline(peer[c])
  /\ \E ok \in connWrite(peer[c]) :
       /\ r2c' = r2cAfter(peer[c], Frame(Bridge, 0, NoChannel), ok)
       /\ IF ok
          THEN /\ pc' = [pc EXCEPT ![c] = "bridge_ack_listener"]
               /\ UNCHANGED <<rOpen, c2r>>
          ELSE /\ pc' = [pc EXCEPT ![c] = "done"]
               /\ rOpen' = connClose(c)
               /\ c2r' = Drop(c2r, rOpen')
  /\ UNCHANGED <<identVars, cOpen, isclosed, peer, connectionID, mu,
                 receiverTable, inflightTable, nextConnectionID, checker,
                 spliceVars, listenerVars, dstate, appVars, libVars, hist>>

\* handleBridge writes the Bridge acknowledgement to the bridge transport and
\* starts the two copy goroutines (router.go 184-198).
BridgeAckListener(c) ==
  /\ pc[c] = "bridge_ack_listener"
  /\ \E ok \in connWrite(c) :
       /\ r2c' = r2cAfter(c, Frame(Bridge, 0, NoChannel), ok)
       /\ IF ok
          THEN /\ pc' = [pc EXCEPT ![c] = "splice"]
               /\ copyBD' = [copyBD EXCEPT ![c] = "run"]
               /\ copyDB' = [copyDB EXCEPT ![c] = "run"]
               /\ hist' = [hist EXCEPT !.ackedB = @ \cup {c}]
               /\ UNCHANGED <<rOpen, c2r>>
          ELSE /\ pc' = [pc EXCEPT ![c] = "done"]
               /\ rOpen' = connClose(c)
               /\ c2r' = Drop(c2r, rOpen')
               /\ UNCHANGED <<copyBD, copyDB, hist>>
  /\ UNCHANGED <<identVars, cOpen, deadline, isclosed, peer, connectionID, mu,
                 receiverTable, inflightTable, nextConnectionID, checker,
                 cancelled, listenerVars, dstate, appVars, libVars>>

\* One round of io.Copy from transport src to transport dst (router.go 190-198):
\* read what has arrived and write it on; on end-of-stream or an error the
\* goroutine calls cancelFn and exits.
CopyRound(b, src, dst, loop) ==
  \/ /\ RouterCanRead(src)
     /\ \E ok \in RouterWrite(dst) :
          /\ r2c' = r2cAfter(dst, Head(c2r[src]), ok)
          /\ c2r' = [c2r EXCEPT ![src] = Tail(@)]
          /\ loop' = [loop EXCEPT ![b] = IF ok THEN "run" ELSE "exit"]
          /\ cancelled' = [cancelled EXCEPT ![b] = @ \/ ~ok]
  \/ /\ RouterReadFails(src)
     /\ loop' = [loop EXCEPT ![b] = "exit"]
     /\ cancelled' = [cancelled EXCEPT ![b] = TRUE]
     /\ UNCHANGED <<r2c, c2r>>

\* The goroutine copying from the bridge transport to the dialer (190-193).
CopyBD(b) ==
  /\ copyBD[b] = "run"
  /\ CopyRound(b, b, peer[b], copyBD)
  /\ UNCHANGED <<identVars, cOpen, rOpen, deadline, routerVars, copyDB,
                 listenerVars, dstate, appVars, libVars, hist>>

\* The goroutine copying from the dialer to the bridge transport (195-198).
CopyDB(b) ==
  /\ copyDB[b] = "run"
  /\ CopyRound(b, peer[b], b, copyDB)
  /\ UNCHANGED <<identVars, cOpen, rOpen, deadline, routerVars, copyBD,
                 listenerVars, dstate, appVars, libVars, hist>>

\* router.go 202-203: the connections handleBridge closes when it wakes.
bridgeOnly(b) == {b}
bridgeEnds(b) == {b, peer[b]}

\* handleBridge wakes on ctx.Done(), closes both connections and returns
\* (router.go 200-204).
BridgeReturn(b) ==
  /\ pc[b] = "splice"
  /\ cancelled[b]
  /\ isclosed' = closeFlag(bridgeEnds(b))
  /\ hist' = callClose(hist, bridgeEnds(b))
  /\ rOpen' = closeROpen(bridgeEnds(b))
  /\ c2r' = Drop(c2r, rOpen')
  /\ pc' = [pc EXCEPT ![b] = "done"]
  /\ UNCHANGED <<identVars, r2c, cOpen, deadline, peer, connectionID, mu,
                 receiverTable, inflightTable, nextConnectionID, checker,
                 spliceVars, listenerVars, dstate, appVars, libVars>>

\* ---------------------------------------------------------- Listener client
\* NewRouterListenerWithConn, first half (client.go 494-521): open the control
\* transport and write Listen(channel).
ListenerNew(c, ch, g, max) ==
  /\ Cardinality(Opened("L")) < max
  /\ OpenTransport(c, "L", ch, g, Frame(Listen, 0, ch))
  /\ lstate' = [lstate EXCEPT ![c] = "handshake"]
  /\ UNCHANGED <<isclosed, peer, connectionID, mu, receiverTable,
                 inflightTable, nextConnectionID, checker, spliceVars,
                 isClosed, activeAcceptors, accepts, btask, owner, dstate,
                 appVars, libVars, hist>>

\* NewRouterListenerWithConn, second half (client.go 522-527): read one frame;
\* any frame readFrame accepts completes the constructor, which starts
\* spawnController; an error closes the transport and fails the constructor.
\* onReadError is what the constructor makes of the error (523-525).
errorIgnored == "open"
onReadError == "failed"
ListenerHandshake(c) ==
  /\ lstate[c] = "handshake"
  /\ \/ /\ ClientCanRead(c)
        /\ readFrameOK(Head(r2c[c]))
        /\ r2c' = [r2c EXCEPT ![c] = Tail(@)]
        /\ lstate' = [lstate EXCEPT ![c] = "open"]
        /\ UNCHANGED cOpen
     \/ /\ ClientReadFails(c)
        /\ cOpen' = [cOpen EXCEPT ![c] = FALSE]
        /\ r2c' = Drop(r2c, cOpen')
        /\ lstate' = [lstate EXCEPT ![c] = onReadError]
  /\ UNCHANGED <<identVars, c2r, rOpen, deadline, routerVars, spliceVars,
                 isClosed, activeAcceptors, accepts, btask, owner, dstate,
                 appVars, libVars, hist>>

\* Listener.Close, the test under the mutex (client.go 549-553).
notYetClosed(c) == FALSE
alreadyClosed(c) == isClosed[c]

\* Listener.Close, client.go 555-556: close(acceptorChan), close(closedSig);
\* h.chanCloses counts how often the two channels of c have been closed.
closeChans(h, c) == [h EXCEPT !.chanCloses[c] = @ + 1]

\* Listener.Close (client.go 548-558): the first call sets isClosed and closes
\* acceptorChan and closedSig.
ListenerClose(c) ==
  /\ lstate[c] \in {"open", "stopped"}
  /\ ~alreadyClosed(c)
  /\ isClosed' = [isClosed EXCEPT ![c] = TRUE]
  /\ hist' = closeChans([hist EXCEPT !.userClosed = @ \cup {c}], c)
  /\ UNCHANGED <<identVars, netVars, routerVars, spliceVars, lstate,
                 activeAcceptors, accepts, btask, owner, dstate, appVars, libVars>>

\* Listener.Close called on a listener on which Close has been called before
\* (client.go 548-558), by the application; the mutex makes the call atomic.
ListenerCloseAgain(c, max) ==
  /\ lstate[c] \in {"open", "stopped"}
  /\ isClosed[c] \/ c \in hist.userClosed
  /\ hist.closeCalls[c] < max
  /\ IF alreadyClosed(c)
     THEN /\ isClosed' = isClosed
          /\ hist' = [hist EXCEPT !.closeCalls[c] = @ + 1]
     ELSE /\ isClosed' = [isClosed EXCEPT ![c] = TRUE]
          /\ hist' = closeChans([hist EXCEPT !.closeCalls[c] = @ + 1], c)
  /\ UNCHANGED <<identVars, netVars, routerVars, spliceVars, lstate,
                 activeAcceptors, accepts, btask, owner, dstate, appVars, libVars>>

\* The goroutine of spawnController that waits for closedSig and closes the
\* control transport (client.go 588-591).
ListenerWatcher(c) ==
  /\ isClosed[c]
  /\ cOpen[c]
  /\ cOpen' = [cOpen EXCEPT ![c] = FALSE]
  /\ r2c' = Drop(r2c, cOpen')
  /\ UNCHANGED <<identVars, c2r, rOpen, deadline, routerVars, spliceVars,
                 listenerVars, dstate, appVars, libVars, hist>>

\* The slot of the next transport to open, taken by a bridge goroutine that has
\* been started but has not connected yet.
SpawnBridgeTask(c, b, id) ==
  /\ b = nconn + 1
  /\ b \in Conns
  /\ nconn' = b
  /\ kind' = [kind EXCEPT ![b] = "B"]
  /\ chan' = [chan EXCEPT ![b] = chan[c]]
  /\ good' = [good EXCEPT ![b] = good[c]]
  /\ owner' = [owner EXCEPT ![b] = c]
  /\ btask' = [btask EXCEPT ![b] = "spawned"]
  /\ connectionID' = [connectionID EXCEPT ![b] = id]

\* One round of the loop of spawnController (client.go 593-629): read a frame;
\* on an error close the listener and return; answer a Nop with a Nop; on a
\* Bridge start a bridge goroutine, but only while some Accept() is waiting.
\* shutDown(c) is the flag after listener.Close() on the read error (595).
staysOpen(c) == isClosed
shutDown(c) == [isClosed EXCEPT ![c] = TRUE]
ControllerRound(c) ==
  /\ lstate[c] = "open"
  /\ ~isClosed[c]
  /\ \/ /\ ClientReadFails(c) \/ (ClientCanRead(c) /\ ~readFrameOK(Head(r2c[c])))
        /\ isClosed' = shutDown(c)
        /\ hist' = closeChans(hist, c)
        /\ lstate' = [lstate EXCEPT ![c] = "stopped"]
        /\ UNCHANGED <<identVars, netVars, connectionID, owner, btask>>
     \/ /\ ClientCanRead(c)
        /\ Head(r2c[c]).Type = Nop
        /\ \E ok \in ClientWrite(c) :
             /\ c2r' = c2rAfter(c, nopFrame, ok)
             /\ isClosed' = [isClosed EXCEPT ![c] = ~ok]
             /\ hist' = IF ok THEN hist ELSE closeChans(hist, c)
             /\ lstate' = [lstate EXCEPT ![c] = IF ok THEN "open" ELSE "stopped"]
        /\ r2c' = [r2c EXCEPT ![c] = Tail(@)]
        /\ UNCHANGED <<identVars, cOpen, rOpen, deadline, connectionID, owner, btask>>
     \/ /\ ClientCanRead(c)
        /\ Head(r2c[c]).Type = Bridge
        /\ r2c' = [r2c EXCEPT ![c] = Tail(@)]
        /\ IF activeAcceptors[c] > 0
           THEN \E b \in Conns : SpawnBridgeTask(c, b, Head(r2c[c]).ConnectionID)
           ELSE UNCHANGED <<identVars, connectionID, owner, btask>>
        /\ UNCHANGED <<c2r, cOpen, rOpen, deadline, isClosed, lstate, hist>>
  /\ UNCHANGED <<isclosed, pc, peer, mu, receiverTable, inflightTable,
                 nextConnectionID, checker, spliceVars, activeAcceptors,
                 accepts, dstate, appVars, libVars>>

\* The loop condition of spawnController sees isClosed and the controller
\* returns (client.go 593, 587).
ControllerExit(c) ==
  /\ lstate[c] = "open"
  /\ isClosed[c]
  /\ lstate' = [lstate EXCEPT ![c] = "stopped"]
  /\ UNCHANGED <<identVars, netVars, routerVars, spliceVars, isClosed,
                 activeAcceptors, accepts, btask, owner, dstate, appVars, libVars, hist>>

\* The bridge goroutine opens a new transport and writes Bridge(id, channel)
\* (client.go 605-619).
BridgeTaskConnect(b) ==
  /\ btask[b] = "spawned"
  /\ c2r' = [c2r EXCEPT ![b] = <<Frame(Bridge, connectionID[b], chan[b])>>]
  /\ cOpen' = [cOpen EXCEPT ![b] = TRUE]
  /\ rOpen' = [rOpen EXCEPT ![b] = TRUE]
  /\ pc' = [pc EXCEPT ![b] = "greet"]
  /\ btask' = [btask EXCEPT ![b] = "wait_ack"]
  /\ UNCHANGED <<identVars, r2c, deadline, isclosed, peer, connectionID, mu,
                 receiverTable, inflightTable, nextConnectionID, checker,
                 spliceVars, lstate, isClosed, activeAcceptors, accepts, owner,
                 dstate, appVars, libVars, hist>>

\* The bridge goroutine reads the acknowledgement (client.go 620-625); an error
\* closes its transport and ends the goroutine.
BridgeTaskAck(b) ==
  /\ btask[b] = "wait_ack"
  /\ \/ /\ ClientCanRead(b)
        /\ readFrameOK(Head(r2c[b]))
        /\ r2c' = [r2c EXCEPT ![b] = Tail(@)]
        /\ btask' = [btask EXCEPT ![b] = "handoff"]
        /\ UNCHANGED cOpen
     \/ /\ ClientReadFails(b)
        /\ cOpen' = [cOpen EXCEPT ![b] = FALSE]
        /\ r2c' = Drop(r2c, cOpen')
        /\ btask' = [btask EXCEPT ![b] = "failed"]
  /\ UNCHANGED <<identVars, c2r, rOpen, deadline, routerVars, spliceVars,
                 lstate, isClosed, activeAcceptors, accepts, owner, dstate,
                 appVars, libVars, hist>>

\* Accept (client.go 633-637): count the acceptor, then wait on acceptorChan.
Accept(c, max) ==
  /\ lstate[c] \in {"open", "stopped"}
  /\ accepts[c] < max
  /\ accepts' = [accepts EXCEPT ![c] = @ + 1]
  /\ activeAcceptors' = [activeAcceptors EXCEPT ![c] = @ + 1]
  /\ UNCHANGED <<identVars, netVars, routerVars, spliceVars, lstate, isClosed,
                 btask, owner, dstate, appVars, libVars, hist>>

\* The send on acceptorChan (client.go 626) meets the receive of a waiting
\* Accept (637-640), which returns the transport.
Handoff(b) ==
  /\ btask[b] = "handoff"
  /\ ~isClosed[owner[b]]
  /\ activeAcceptors[owner[b]] > 0
  /\ btask' = [btask EXCEPT ![b] = "accepted"]
  /\ activeAcceptors' = [activeAcceptors EXCEPT ![owner[b]] = @ - 1]
  /\ UNCHANGED <<identVars, netVars, routerVars, spliceVars, lstate, isClosed,
                 accepts, owner, dstate, appVars, libVars, hist>>

\* A waiting Accept finds acceptorChan closed and returns io.EOF (637-641).
AcceptEOF(c) ==
  /\ isClosed[c]
  /\ activeAcceptors[c] > 0
  /\ activeAcceptors' = [activeAcceptors EXCEPT ![c] = @ - 1]
  /\ UNCHANGED <<identVars, netVars, routerVars, spliceVars, lstate, isClosed,
                 accepts, btask, owner, dstate, appVars, libVars, hist>>

\* The send on acceptorChan (client.go 626) finds the channel closed: the
\* goroutine panics.
HandoffPanic(b) ==
  /\ btask[b] = "handoff"
  /\ isClosed[owner[b]]
  /\ btask' = [btask EXCEPT ![b] = "panic"]
  /\ UNCHANGED <<identVars, netVars, routerVars, spliceVars, lstate, isClosed,
                 activeAcceptors, accepts, owner, dstate, appVars, libVars, hist>>

\* ------------------------------------------------------------ Dialer client
\* Client.Dial, first half (client.go 436-453): open a transport, write Dial.
DialNew(c, ch, g, max) ==
  /\ Cardinality(Opened("D")) < max
  /\ OpenTransport(c, "D", ch, g, Frame(Dial, 0, ch))
  /\ dstate' = [dstate EXCEPT ![c] = "wait"]
  /\ hist' = [hist EXCEPT !.lateDial = @ \cup
                {x \in {c} : \E l \in hist.userClosed : chan[l] = ch}]
  /\ UNCHANGED <<isclosed, peer, connectionID, mu, receiverTable,
                 inflightTable, nextConnectionID, checker, spliceVars,
                 listenerVars, appVars, libVars>>

\* Client.Dial, second half (client.go 454-461): read one frame; return the
\* transport when it is a Bridge frame, an error otherwise.
DialResult(c) ==
  /\ dstate[c] = "wait"
  /\ \/ /\ ClientCanRead(c)
        /\ r2c' = [r2c EXCEPT ![c] = Tail(@)]
        /\ dstate' = [dstate EXCEPT ![c] =
             IF readFrameOK(Head(r2c[c])) /\ Head(r2c[c]).Type = Bridge
             THEN "ok" ELSE "err"]
     \/ /\ ClientReadFails(c)
        /\ dstate' = [dstate EXCEPT ![c] = "err"]
        /\ UNCHANGED r2c
  /\ UNCHANGED <<identVars, c2r, cOpen, rOpen, deadline, routerVars,
                 spliceVars, listenerVars, appVars, libVars, hist>>

\* --------------------------------------------- applications on a bridge end
\* The transports handed to applications: by Dial and by Accept.
Established(x) == dstate[x] = "ok" \/ btask[x] = "accepted"

\* The application writes its next payload byte (bytes are numbered 1, 2, ...).
AppWrite(x, max) ==
  /\ Established(x)
  /\ cOpen[x]
  /\ Len(sent[x]) < max
  /\ \E ok \in ClientWrite(x) :
       /\ c2r' = c2rAfter(x, Data(Len(sent[x]) + 1), ok)
       /\ sent' = [sent EXCEPT ![x] = IF ok /\ rOpen[x] THEN Append(@, Len(@) + 1) ELSE @]
  /\ UNCHANGED <<identVars, r2c, cOpen, rOpen, deadline, routerVars,
                 spliceVars, listenerVars, dstate, recv, eof, hist,
                 libVars>>

\* The application reads: the next byte, or end-of-stream.
AppRead(x) ==
  /\ Established(x)
  /\ cOpen[x]
  /\ ~eof[x]
  /\ \/ /\ ClientCanRead(x)
        /\ recv' = [recv EXCEPT ![x] = Append(@, Head(r2c[x]).ConnectionID)]
        /\ r2c' = [r2c EXCEPT ![x] = Tail(@)]
        /\ UNCHANGED eof
     \/ /\ r2c[x] = <<>> /\ ~rOpen[x]
        /\ eof' = [eof EXCEPT ![x] = TRUE]
        /\ UNCHANGED <<recv, r2c>>
  /\ UNCHANGED <<identVars, c2r, cOpen, rOpen, deadline, routerVars,
                 spliceVars, listenerVars, dstate, sent, hist,
                 libVars>>

\* The application closes its end of the bridge.
AppClose(x) ==
  /\ Established(x)
  /\ cOpen[x]
  /\ cOpen' = [cOpen EXCEPT ![x] = FALSE]
  /\ r2c' = Drop(r2c, cOpen')
  /\ UNCHANGED <<identVars, c2r, rOpen, deadline, routerVars, spliceVars,
                 listenerVars, dstate, appVars, libVars, hist>>

\* ------------------------------------------------------------------ codec
\* bin.go 12.
MaxChannelNameLength == 256
\* The largest value of the uint16 length field (bin.go 24, 36).
MaxUint16 == 65535

\* proto.go 19-31: the byte of each frame type.
proto == [Dial |-> 0, Listen |-> 1, Bridge |-> 2, Nop |-> 3, Close |-> 4]

\* A uint64 is written here as four 16-bit limbs, most significant first:
\* <<a, b, c, d>> is a * 2^48 + b * 2^32 + c * 2^16 + d.
ZeroID == <<0, 0, 0, 0>>

\* encoding/binary, BigEndian: uint16 and uint64 to bytes and back.
le16(n) == <<n % 256, n \div 256>>
be16(n) == <<n \div 256, n % 256>>
u16(hi, lo) == hi * 256 + lo
uint16(n) == n % (MaxUint16 + 1)
le64(id) == be16(id[4]) \o be16(id[3]) \o be16(id[2]) \o be16(id[1])
be64(id) == be16(id[1]) \o be16(id[2]) \o be16(id[3]) \o be16(id[4])
u64(b) == <<u16(b[1], b[2]), u16(b[3], b[4]), u16(b[5], b[6]), u16(b[7], b[8])>>

\* bin.go writeBytes (23-33): the length as uint16, then the bytes.
writeBytes(message) == be16(uint16(Len(message))) \o message

\* bin.go writeFrame (52-60): type byte, connection id, channel.
writeFrame(frame) ==
  <<frame.Type>> \o be64(frame.ConnectionID) \o writeBytes(frame.Channel)

\* io.ReadFull on a stream that holds the bytes r and then ends: n bytes, or
\* io.EOF when there is none, or io.ErrUnexpectedEOF when there are too few.
ReadFull(r, n) ==
  IF Len(r) >= n
  THEN [err |-> "nil", buf |-> SubSeq(r, 1, n), rest |-> SubSeq(r, n + 1, Len(r))]
  ELSE [err |-> IF Len(r) = 0 THEN "EOF" ELSE "ErrUnexpectedEOF",
        buf |-> <<>>, rest |-> <<>>]

\* bin.go 40: the test on the length field.
tooLargeFrom(strLen) == strLen >= MaxChannelNameLength
tooLarge(strLen) == strLen > MaxChannelNameLength

\* bin.go readBytes (35-50); alloc is the size of the buffer made at line 43.
readBytes(r) ==
  LET h == ReadFull(r, 2) IN
  IF h.err # "nil"
  THEN [err |-> h.err, buf |-> <<>>, alloc |-> 0, rest |-> h.rest]
  ELSE LET strLen == u16(h.buf[1], h.buf[2]) IN
       IF tooLarge(strLen)
       THEN [err |-> "string length too large", buf |-> <<>>, alloc |-> 0,
             rest |-> h.rest]
       ELSE LET b == ReadFull(h.rest, strLen) IN
            [err |-> b.err, buf |-> b.buf, alloc |-> strLen, rest |-> b.rest]

\* bin.go 78-83: a frame of type Close is reported as an error.
closeError(frame) ==
  IF frame.Type # proto.Close THEN "nil"
  ELSE IF Len(frame.Channel) = 0 THEN "EOF" ELSE "connection closed"

\* bin.go readFrame (62-85) on a zero Frame: the error, the frame as the call
\* leaves it, the buffer size allocated and the bytes left unread.
readFrame(r) ==
  LET t == ReadFull(r, 1) IN
  IF t.err # "nil"
  THEN [err |-> t.err, frame |-> Frame(0, ZeroID, <<>>), alloc |-> 0,
        rest |-> t.rest]
  ELSE LET i == ReadFull(t.rest, 8) IN
       IF i.err # "nil"
       THEN [err |-> i.err, frame |-> Frame(t.buf[1], ZeroID, <<>>),
             alloc |-> 0, rest |-> i.rest]
       ELSE LET c == readBytes(i.rest)
                f == Frame(t.buf[1], u64(i.buf), c.buf) IN
            [err |-> IF c.err # "nil" THEN c.err ELSE closeError(f),
             frame |-> f, alloc |-> c.alloc, rest |-> c.rest]

\* The frames and the streams the codec is applied to.
TestTypes == {proto[t] : t \in {Dial, Listen, Bridge, Nop, Close}}
TestIDs == {ZeroID, <<0, 0, 0, 1>>, <<0, 0, 1, 0>>, <<258, 772, 1286, 1800>>,
            <<MaxUint16, MaxUint16, MaxUint16, MaxUint16>>}
TestLens == {0, 1, 2, MaxChannelNameLength - 1, MaxChannelNameLength,
             MaxChannelNameLength + 1}
Fill(n, b) == [i \in 1..n |-> (b + i) % 256]
TestChannels == {Fill(n, b) : n \in TestLens, b \in {0, 200}}
TestFrames == {Frame(t, id, ch) : t \in TestTypes, id \in TestIDs,
                                  ch \in TestChannels}

\* Streams no writeFrame of a test frame produces: a length field far above
\* the limit with few bytes behind it, and frames cut short.
RawFrames == {Frame(t, ZeroID, Fill(2, 0)) : t \in TestTypes}
RawInputs ==
  {<<f.Type>> \o be64(f.ConnectionID) \o be16(n) \o Fill(k, 0) :
     f \in RawFrames, n \in {MaxChannelNameLength + 1, MaxUint16}, k \in {0, 1}}
  \cup {SubSeq(writeFrame(f), 1, k) : f \in RawFrames, k \in {0, 1, 5, 10, 11, 12}}

\* A writer is given a frame, or a reader is given a stream.
InitCodec ==
  /\ InitRouter
  /\ CreateKeyStore
  /\ now = 0
  /\ newConn
  /\ CreateServerContext
  /\ ZlibIdle
  /\ rframe = NoFrame
  /\ \/ /\ wframe \in TestFrames
        /\ wire = <<>>
        /\ cstate = "frame"
     \/ /\ wframe = NoFrame
        /\ wire \in RawInputs
        /\ cstate = "stream"

\* writeFrame on a writer that takes every byte.
WriteFrame ==
  /\ cstate = "frame"
  /\ wire' = writeFrame(wframe)
  /\ cstate' = "stream"
  /\ UNCHANGED <<sysVars, mc, svc, zl, wframe, rframe, keyVars, now>>

\* readFrame by a reader that goes on with the frame or the error
\* (client.go 448-460, 592-597, 618-625; part_002 57).
ReadFrame ==
  /\ cstate = "stream"
  /\ rframe' = readFrame(wire)
  /\ cstate' = "read"
  /\ UNCHANGED <<sysVars, mc, svc, zl, wframe, wire, keyVars, now>>

\* Router.handleConnection (router.go 208-214): read the first frame; on an
\* error return, and the deferred conn.Close() closes the connection.
HandleConnectionRead ==
  /\ cstate = "stream"
  /\ rframe' = readFrame(wire)
  /\ cstate' = IF rframe'.err # "nil" THEN "closed" ELSE "dispatch"
  /\ UNCHANGED <<sysVars, mc, svc, zl, wframe, wire, keyVars, now>>

NextCodec ==
  \/ WriteFrame
  \/ ReadFrame
  \/ HandleConnectionRead

SpecCodec == InitCodec /\ [][NextCodec]_vars

\* ------------------------------------------------------------------ clock
\* Time passes.
Tick ==
  /\ now < MaxTime
  /\ now' = now + 1
  /\ UNCHANGED <<sysVars, mc, svc, zl, codecVars, keyVars>>

\* --------------------------------------------------------------- KeyStore
\* client.go 659-672: the controls of a rule and the request types.
UndefinedACL == 0
Allow == 1
Deny == 2
InvokeAction == 3
ListenAction == 4

\* HashKey (client.go 818-821) and the serialization of GetSessionKey
\* (client.go 827): two encodings of the key bytes, both one-to-one on Keys.
Keys == {"k1", "k2"}
HashKey(key) == <<"sha512", key>>
Serialize(key) == <<"base64", key>>

\* regexp.MatchString for the patterns in use: ".*", "^s$", "s" (s a literal,
\* matched anywhere in the name) and a pattern that does not compile.
MatchString(pattern, name) ==
  [err |-> pattern.kind = "invalid",
   matched |->
     CASE pattern.kind = "any" -> TRUE
       [] pattern.kind = "exact" -> name = pattern.s
       [] pattern.kind = "contains" ->
            \E i \in 0..(Len(name) - Len(pattern.s)) :
              SubSeq(name, i + 1, i + Len(pattern.s)) = pattern.s
       [] OTHER -> FALSE]

\* shouldAllow, client.go 807-813: the control of a matching rule replaces
\* what earlier rules set.
firstWins(allowed, control) == IF allowed = UndefinedACL THEN control ELSE allowed
override(allowed, control) == control

\* shouldAllow (client.go 797-815): the loop over the rules, then the test.
RECURSIVE shouldAllowFrom(_, _, _, _)
shouldAllowFrom(allowed, requestType, channelName, rules) ==
  IF rules = <<>> THEN allowed
  ELSE LET rule == Head(rules)
           m == MatchString(rule.ChannelRegexp, channelName)
           after == IF m.err \/ ~m.matched THEN allowed
                    ELSE IF requestType = InvokeAction
                         THEN override(allowed, rule.InvokeControl)
                    ELSE IF requestType = ListenAction
                         THEN override(allowed, rule.ListenControl)
                    ELSE allowed
       IN shouldAllowFrom(after, requestType, channelName, Tail(rules))

shouldAllow(requestType, channelName, rules) ==
  shouldAllowFrom(UndefinedACL, requestType, channelName, rules) = Allow

\* lookupHashKey, client.go 790: the test on the expiry.
neverExpires(property, t) == TRUE
expiresAfter(property, t) == property.Expire > t

\* lookupHashKey (client.go 787-795) at clock value t: a copy of the property,
\* or nil.
Nil == [nil |-> TRUE]
lookupHashKey(key, t) ==
  IF key \in DOMAIN Table /\ expiresAfter(Table[key], t) THEN Table[key] ELSE Nil

\* The rules, keys' properties, channel names and requests in use.
TestPatterns == {[kind |-> "any", s |-> <<>>], [kind |-> "exact", s |-> <<"a">>],
                 [kind |-> "contains", s |-> <<"a">>],
                 [kind |-> "invalid", s |-> <<>>]}
TestControls == {<<Allow, Deny>>, <<Deny, Allow>>, <<UndefinedACL, UndefinedACL>>}
TestRules == {[ListenControl |-> c[1], InvokeControl |-> c[2], ChannelRegexp |-> p] :
                c \in TestControls, p \in TestPatterns}
RuleLists == UNION {[1..n -> TestRules] : n \in 0..MaxRules}
Properties == [Expire : 1..MaxTime, Rules : RuleLists, ID : {"id"}]
ChannelNames == {<<"a">>, <<"b", "a">>, <<"b">>}
RequestTypes == {InvokeAction, ListenAction}

\* store.mu is free: no CleanUp holds it (client.go 744-745).
storeFree == clean.state = "idle"

\* RegisterKey (client.go 769-784): refused when the key or the ID is there.
RegisterKey(Key, property) ==
  /\ storeFree
  /\ Cardinality(DOMAIN Table) < MaxKeys
  /\ HashKey(Key) \notin DOMAIN Table
  /\ \A h \in DOMAIN Table : Table[h].ID # property.ID
  /\ Table' = Insert(Table, HashKey(Key), property)
  /\ UNCHANGED <<sysVars, mc, svc, zl, codecVars, cache, call, clean, now>>

\* CheckPermission calls GetSessionKey (client.go 856-857, 824-835): the hashed
\* key is taken from the cache or computed, and stored in the cache.
CheckBegin(requestType, channelName, key) ==
  /\ storeFree
  /\ call.state \in {"idle", "returned"}
  /\ LET realKey == IF Serialize(key) \in DOMAIN cache THEN cache[Serialize(key)]
                    ELSE HashKey(key) IN
     /\ cache' = Insert(cache, Serialize(key), realKey)
     /\ call' = [state |-> "lookup", requestType |-> requestType,
                 channelName |-> channelName, key |-> key, realKey |-> realKey]
  /\ UNCHANGED <<sysVars, mc, svc, zl, codecVars, Table, clean, now>>

\* GetSessionKey calls lookupHashKey (client.go 836-839); registered, property
\* and t1 record the table entry and the clock value the lookup saw.
CheckLookup ==
  /\ storeFree
  /\ call.state = "lookup"
  /\ call' = [state |-> "looked", requestType |-> call.requestType,
              channelName |-> call.channelName, key |-> call.key,
              keyProperty |-> lookupHashKey(call.realKey, now),
              registered |-> HashKey(call.key) \in DOMAIN Table,
              property |-> IF HashKey(call.key) \in DOMAIN Table
                           THEN Table[HashKey(call.key)] ELSE Nil,
              t1 |-> now]
  /\ UNCHANGED <<sysVars, mc, svc, zl, codecVars, Table, cache, clean, now>>

\* GetSessionKey reads the clock again (client.go 840-843) and CheckPermission
\* returns shouldAllow of the key's rules, or false (857-860).
CheckEnd ==
  /\ call.state = "looked"
  /\ call' = [state |-> "returned", requestType |-> call.requestType,
              channelName |-> call.channelName, key |-> call.key,
              registered |-> call.registered, property |-> call.property,
              t1 |-> call.t1, t2 |-> now,
              result |-> IF call.keyProperty = Nil THEN FALSE
                         ELSE IF now > call.keyProperty.Expire THEN FALSE
                         ELSE shouldAllow(call.requestType, call.channelName,
                                          call.keyProperty.Rules)]
  /\ UNCHANGED <<sysVars, mc, svc, zl, codecVars, Table, cache, clean, now>>

\* UpdateKey (client.go 761-766): set the entry of the key, new or not.
UpdateKey(Key, property) ==
  /\ storeFree
  /\ Table' = Insert(Table, HashKey(Key), property)
  /\ UNCHANGED <<sysVars, mc, svc, zl, codecVars, cache, call, clean, now>>

\* CleanUp, client.go 748: the test on an entry.
expiredNever(val, t) == FALSE
expiredAt(val, t) == t > val.Expire

\* CleanUp, first half (client.go 742-751): take the lock and collect the
\* keys whose entry has expired; t1 is the clock value the loop saw.
CleanScan ==
  /\ storeFree
  /\ clean' = [state |-> "scanned",
               expiredKeys |-> {h \in DOMAIN Table : expiredAt(Table[h], now)},
               t1 |-> now]
  /\ UNCHANGED <<sysVars, mc, svc, zl, codecVars, Table, cache, call, now>>

\* CleanUp, second half (client.go 753-758): delete the collected keys, make a
\* new cache, release the lock.
CleanDelete ==
  /\ clean.state = "scanned"
  /\ Table' = [h \in DOMAIN Table \ clean.expiredKeys |-> Table[h]]
  /\ cache' = <<>>
  /\ clean' = [state |-> "idle", removed |-> clean.expiredKeys,
               kept |-> DOMAIN Table \ clean.expiredKeys]
  /\ UNCHANGED <<sysVars, mc, svc, zl, codecVars, call, now>>

\* SpecClean: keys are registered and updated and CleanUp is called, in any
\* order, while the clock runs.
PlainProperties == [Expire : 0..MaxTime, Rules : {<<>>}, ID : {"id1", "id2"}]
NextClean ==
  \/ \E k \in Keys, property \in PlainProperties : RegisterKey(k, property)
  \/ \E k \in Keys, property \in PlainProperties : UpdateKey(k, property)
  \/ CleanScan
  \/ CleanDelete
  \/ Tick

SpecClean == Init /\ [][NextClean]_vars

\* SpecKeys: a key store in which a key is registered and CheckPermission is
\* called while the clock runs.
NextKeys ==
  \/ \E k \in {"k1"}, property \in Properties : RegisterKey(k, property)
  \/ \E t \in RequestTypes, ch \in ChannelNames, k \in Keys : CheckBegin(t, ch, k)
  \/ CheckLookup
  \/ CheckEnd
  \/ Tick

SpecKeys == Init /\ [][NextKeys]_vars

\* ------------------------------------------------------------ specification
\* The goroutines of the Router that serve Listen transports.
ListenSteps(c) ==
  \/ ListenBind(c)
  \/ ListenReturn(c)
  \/ CheckerTick(c)
  \/ CheckerProbeRead(c)

\* The displacement probe of handleListen.
ProbeSteps(c) ==
  \/ ListenProbeStart(c)
  \/ ListenProbeRead(c)

\* The goroutines of the Router and of the client that serve a dial.
DialSteps(c) ==
  \/ DialNoChannel(c)
  \/ DialAlloc(c)
  \/ DialWriteBridge(c)
  \/ DialHandlerReturn(c)
  \/ DialResult(c)

\* The goroutines of a listener client that own the control connection.
ListenerSteps(c) ==
  \/ ListenerHandshake(c)
  \/ ListenerClose(c)
  \/ ListenerWatcher(c)
  \/ ControllerRound(c)
  \/ ControllerExit(c)

\* The bridge goroutines of a listener, Accept(), and handleBridge up to the
\* acknowledgements.
HandshakeSteps(c) ==
  \/ AcceptEOF(c)
  \/ BridgeTaskConnect(c)
  \/ BridgeTaskAck(c)
  \/ Handoff(c)
  \/ HandoffPanic(c)
  \/ BridgeMatch(c)
  \/ BridgeAckDialer(c)
  \/ BridgeAckListener(c)

\* The copy goroutines of handleBridge and its return.
SpliceSteps(c) ==
  \/ CopyBD(c)
  \/ CopyDB(c)
  \/ BridgeReturn(c)

\* Spec: the registry.  Listeners register, are probed, displaced and closed;
\* dials are matched against the registry.  No Accept() is called, so no
\* bridge transport is opened.
Next ==
  \/ \E c \in Conns, ch \in Channels : ListenerNew(c, ch, TRUE, MaxListens)
  \/ \E c \in Conns, ch \in Channels : DialNew(c, ch, TRUE, MaxDials)
  \/ \E c \in Conns : ListenSteps(c)
  \/ \E c \in Conns : CheckerClosed(c)
  \/ \E c \in Conns : ProbeSteps(c)
  \/ \E c \in Conns : DialSteps(c)
  \/ \E c \in Conns : ListenerSteps(c)

Spec == Init /\ [][Next]_vars

\* SpecDial: one listener and several dials, up to the established bridges.
NextDial ==
  \/ \E c \in Conns, ch \in Channels : ListenerNew(c, ch, TRUE, 1)
  \/ \E c \in Conns, ch \in Channels : DialNew(c, ch, TRUE, ManyDials)
  \/ \E c \in Conns : Accept(c, MaxAccepts)
  \/ \E c \in Conns : ListenSteps(c)
  \/ \E c \in Conns : CheckerClosed(c)
  \/ \E c \in Conns : DialSteps(c)
  \/ \E c \in Conns : ListenerSteps(c)
  \/ \E c \in Conns : HandshakeSteps(c)

SpecDial == Init /\ [][NextDial]_vars

\* SpecBridge: one listener, one dial and its bridge, with payload in both
\* directions and the applications closing their ends.  With a single dial
\* the control connection is never closed under a running checker, so
\* CheckerClosed has no step here.
NextBridge ==
  \/ \E c \in Conns, ch \in Channels : ListenerNew(c, ch, TRUE, 1)
  \/ \E c \in Conns, ch \in Channels : DialNew(c, ch, TRUE, 1)
  \/ \E c \in Conns : Accept(c, MaxAccepts)
  \/ \E c \in Conns : AppWrite(c, MaxBytes)
  \/ \E c \in Conns : AppRead(c)
  \/ \E c \in Conns : AppClose(c)
  \/ \E c \in Conns : ListenSteps(c)
  \/ \E c \in Conns : DialSteps(c)
  \/ \E c \in Conns : ListenerSteps(c)
  \/ \E c \in Conns : HandshakeSteps(c)
  \/ \E c \in Conns : SpliceSteps(c)

SpecBridge == Init /\ [][NextBridge]_vars

\* SpecAuth: as Spec, with an Authority that may deny any first frame.
NextAuth ==
  \/ \E c \in Conns, ch \in Channels, g \in BOOLEAN : ListenerNew(c, ch, g, MaxListens)
  \/ \E c \in Conns, ch \in Channels, g \in BOOLEAN : DialNew(c, ch, g, MaxDials)
  \/ \E c \in Conns : AuthDenied(c)
  \/ \E c \in Conns : ListenSteps(c)
  \/ \E c \in Conns : CheckerClosed(c)
  \/ \E c \in Conns : ProbeSteps(c)
  \/ \E c \in Conns : DialSteps(c)
  \/ \E c \in Conns : ListenerSteps(c)

SpecAuth == Init /\ [][NextAuth]_vars

\* SpecFair: the scenario of SpecBridge in which every goroutine of the Router
\* and of the clients that can take a step eventually takes one.  The calls of
\* the applications (opening a transport, Accept, Close, Write) are not forced.
NextFair ==
  \/ \E c \in Conns, ch \in 1..FairChannels : ListenerNew(c, ch, TRUE, 1)
  \/ \E c \in Conns, ch \in 1..FairChannels : DialNew(c, ch, TRUE, 1)
  \/ \E c \in Conns : Accept(c, FairAccepts)
  \/ \E c \in Conns : AppWrite(c, FairBytes)
  \/ \E c \in Conns : AppRead(c)
  \/ \E c \in Conns : AppClose(c)
  \/ \E c \in Conns : ListenSteps(c)
  \/ \E c \in Conns : DialSteps(c)
  \/ \E c \in Conns : ListenerSteps(c)
  \/ \E c \in Conns : HandshakeSteps(c)
  \/ \E c \in Conns : SpliceSteps(c)

Fairness ==
  \A c \in Conns :
    /\ WF_vars(ListenBind(c))
    /\ WF_vars(ListenReturn(c))
    /\ WF_vars(CheckerTick(c))
    /\ WF_vars(CheckerProbeRead(c))
    /\ WF_vars(DialNoChannel(c))
    /\ WF_vars(DialAlloc(c))
    /\ WF_vars(DialWriteBridge(c))
    /\ WF_vars(DialHandlerReturn(c))
    /\ WF_vars(DialResult(c))
    /\ WF_vars(ListenerHandshake(c))
    /\ WF_vars(ListenerWatcher(c))
    /\ WF_vars(ControllerRound(c))
    /\ WF_vars(ControllerExit(c))
    /\ WF_vars(HandshakeSteps(c))
    /\ WF_vars(CopyBD(c))
    /\ WF_vars(CopyDB(c))
    /\ WF_vars(BridgeReturn(c))
    /\ WF_vars(AppRead(c))

SpecFair == Init /\ [][NextFair]_vars /\ Fairness

\* SpecClose: one listener on which the application calls Accept() and calls
\* Close() repeatedly, and one dial; every goroutine that can take a step
\* eventually takes one.
NextClose ==
  \/ \E c \in Conns, ch \in 1..FairChannels : ListenerNew(c, ch, TRUE, 1)
  \/ \E c \in Conns, ch \in 1..FairChannels : DialNew(c, ch, TRUE, 1)
  \/ \E c \in Conns : Accept(c, MaxAccepts)
  \/ \E c \in Conns : ListenerCloseAgain(c, MaxCloses)
  \/ \E c \in Conns : ListenSteps(c)
  \/ \E c \in Conns : DialSteps(c)
  \/ \E c \in Conns : ListenerSteps(c)
  \/ \E c \in Conns : HandshakeSteps(c)

FairnessClose ==
  \A c \in Conns :
    /\ WF_vars(ListenSteps(c))
    /\ WF_vars(DialSteps(c))
    /\ WF_vars(ListenerHandshake(c))
    /\ WF_vars(ListenerWatcher(c))
    /\ WF_vars(ControllerRound(c))
    /\ WF_vars(ControllerExit(c))
    /\ WF_vars(AcceptEOF(c))
    /\ WF_vars(HandshakeSteps(c))

SpecClose == Init /\ [][NextClose]_vars /\ FairnessClose

\* SpecTime: the scenario of SpecClose, without repeated Close() calls, on
\* a clock.
NextTime ==
  \/ \E c \in Conns, ch \in 1..FairChannels : ListenerNew(c, ch, TRUE, 1)
  \/ \E c \in Conns, ch \in 1..FairChannels : DialNew(c, ch, TRUE, 1)
  \/ \E c \in Conns : Accept(c, FairAccepts)
  \/ \E c \in Conns : ListenSteps(c)
  \/ \E c \in Conns : DialSteps(c)
  \/ \E c \in Conns : ListenerSteps(c)
  \/ \E c \in Conns : HandshakeSteps(c)
  \/ Tick

SpecTime == Init /\ [][NextTime]_vars /\ FairnessClose /\ WF_vars(Tick)

\* SpecBridges: one listener, one dial, and Bridge transports that other peers
\* open with ids of their choice, next to the listener's own.
NextBridges ==
  \/ \E c \in Conns, ch \in 1..FairChannels : ListenerNew(c, ch, TRUE, 1)
  \/ \E c \in Conns, ch \in 1..FairChannels : DialNew(c, ch, TRUE, 1)
  \/ \E c \in Conns : Accept(c, FairAccepts)
  \/ \E c \in Conns, id \in 0..MaxDials : BridgeNew(c, id, MaxBridges)
  \/ \E c \in Conns : BridgeNoEntry(c)
  \/ \E c \in Conns : ListenSteps(c)
  \/ \E c \in Conns : DialSteps(c)
  \/ \E c \in Conns : ListenerSteps(c)
  \/ \E c \in Conns : HandshakeSteps(c)

SpecBridges == Init /\ [][NextBridges]_vars

\* SpecListen: listeners that compete for one channel, no dials; every
\* goroutine of the Router and of the listeners that can take a step
\* eventually takes one.
NextListen ==
  \/ \E c \in Conns, ch \in 1..FairChannels : ListenerNew(c, ch, TRUE, MaxListens)
  \/ \E c \in Conns : ListenSteps(c)
  \/ \E c \in Conns : CheckerClosed(c)
  \/ \E c \in Conns : ProbeSteps(c)
  \/ \E c \in Conns : ListenerSteps(c)

FairnessListen ==
  \A c \in Conns :
    /\ WF_vars(ListenBind(c))
    /\ WF_vars(ListenReturn(c))
    /\ WF_vars(CheckerTick(c))
    /\ WF_vars(CheckerProbeRead(c))
    /\ WF_vars(CheckerClosed(c))
    /\ WF_vars(ListenProbeStart(c))
    /\ WF_vars(ListenProbeRead(c))
    /\ WF_vars(ListenerHandshake(c))
    /\ WF_vars(ListenerWatcher(c))
    /\ WF_vars(ControllerRound(c))
    /\ WF_vars(ControllerExit(c))

SpecListen == Init /\ [][NextListen]_vars /\ FairnessListen

\* ------------------------------------------------------------- properties
\* The control connections the Router has ever bound to channel ch.
EverBound(ch) == {c \in Conns : <<ch, c>> \in hist.bound}

\* C1: each channel name is bound in the registry to at most one control
\* connection, that connection is one the Router bound to the name, and of all
\* control connections ever bound to the name at most one is not yet closed.
C1_OneLiveListener ==
  \A ch \in Channels :
    /\ receiverTable[ch] \in EverBound(ch) \cup {NoConn}
    /\ Cardinality({c \in EverBound(ch) : ~isclosed[c]}) <= 1

\* C1 case: a holder has been displaced and closed, its successor is bound and
\* open.
C1_Witness ==
  \E ch \in Channels : \E h, c \in EverBound(ch) :
    /\ h # c
    /\ h \in hist.displaced
    /\ isclosed[h]
    /\ receiverTable[ch] = c
    /\ ~isclosed[c]

\* The handler of Listen transport c returns from probing holder peer[c] in
\* this step, and the probe read a frame that readFrame accepts.
ProbeSucceeds(c) ==
  /\ pc[c] = "probe_read"
  /\ pc'[c] # "probe_read"
  /\ rOpen[peer[c]]
  /\ c2r[peer[c]] # <<>>
  /\ Head(c2r[peer[c]]).Type # Close

\* The handler of Listen transport c finds its channel bound to holder h and
\* the probe of h fails in this step: at the write, or at the read.
ProbeFails(c, h) ==
  \/ /\ pc[c] = "greet"
     /\ kind[c] = "L"
     /\ receiverTable[chan[c]] = h
     /\ h # NoConn
     /\ pc'[c] \notin {"greet", "probe_read"}
  \/ /\ pc[c] = "probe_read"
     /\ peer[c] = h
     /\ pc'[c] # "probe_read"
     /\ ~(rOpen[h] /\ c2r[h] # <<>> /\ Head(c2r[h]).Type # Close)

C8_DisplaceDeadHolder ==
  [][\A c, h \in Conns :
       ProbeFails(c, h) =>
         /\ isclosed'[h]
         /\ ~rOpen'[h]
         /\ receiverTable'[chan[c]] = c
         /\ pc'[c] = "listen_wait"
         /\ checker'[c] = "run"
         /\ ~isclosed'[c]
         /\ rOpen'[c]]_vars

\* C8 case: a holder failed its probe, and the Listen that probed it holds the
\* channel.
C8_Witness ==
  \E c \in Conns :
    /\ pc[c] = "listen_wait"
    /\ peer[c] \in hist.displaced
    /\ isclosed[peer[c]]
    /\ receiverTable[chan[c]] = c
    /\ ~isclosed[c]

\* The handler of Dial transport d looks its channel up in this step and finds
\* no binding.
DialFindsNoBinding(d) ==
  /\ pc[d] = "greet"
  /\ kind[d] = "D"
  /\ pc'[d] # "greet"
  /\ receiverTable[chan[d]] = NoConn

\* C9: a Dial for a channel without a registry binding fails at once: no id is
\* allocated, no inflight entry is inserted, no frame is sent to any transport,
\* the dialer's transport is closed, and Dial() never returns it as usable.
C9_DialUnboundFails ==
  [][/\ \A d \in Conns :
          DialFindsNoBinding(d) =>
            /\ nextConnectionID' = nextConnectionID
            /\ inflightTable' = inflightTable
            /\ r2c' = r2c
            /\ pc'[d] = "done"
            /\ ~rOpen'[d]
     /\ \A d \in Conns :
          (kind[d] = "D" /\ pc[d] = "done" /\ peer[d] = NoConn) =>
            dstate'[d] # "ok"]_vars

\* C9 case: a dial found no binding and Dial() has returned an error.
C9_Witness ==
  \E d \in Conns :
    /\ kind[d] = "D"
    /\ pc[d] = "done"
    /\ peer[d] = NoConn
    /\ connectionID[d] = 0
    /\ nextConnectionID = 0
    /\ dstate[d] = "err"

\* The Dial transports whose handler has allocated an id.
Allocated == {d \in Conns : kind[d] = "D" /\ peer[d] # NoConn}

\* C2: every Dial that reaches id allocation receives an id different from
\* every id allocated before it: the counter starts at zero and only grows,
\* every id handed out lies below it, no two dials hold the same id, and an id
\* that enters the inflight table has never been allocated before, so a
\* removed id is never inserted again.
C2_FreshIds ==
  [][/\ nextConnectionID' >= nextConnectionID
     /\ \A id \in hist'.allocated : id >= 0 /\ id < nextConnectionID'
     /\ \A id \in DOMAIN inflightTable' : id \in hist'.allocated
     /\ \A id \in DOMAIN inflightTable' \ DOMAIN inflightTable :
          id \notin hist.allocated
     /\ \A d, e \in Allocated' : d # e => connectionID'[d] # connectionID'[e]]_vars

\* C2 case: two ids have been allocated, the first has been removed from the
\* inflight table and the second is in it.
C2_Witness ==
  /\ hist.allocated = {0, 1}
  /\ DOMAIN inflightTable = {1}
  /\ nextConnectionID = 2

\* The bridge transports whose handler matched dial d and has written the
\* acknowledgement on d's transport.
AckedDialer(d) ==
  {b \in Conns : /\ kind[b] = "B"
                 /\ peer[b] = d
                 /\ pc[b] \in {"bridge_ack_listener", "splice", "done"}}

\* C3 as stated: whenever Dial() has returned a transport without error, the
\* Router has removed the inflight entry, cleared the deadline on the dialer's
\* transport and sent the acknowledgement on the dialer's transport and on the
\* bridge transport.
C3_Stated ==
  \A d \in Conns :
    dstate[d] = "ok" =>
      /\ connectionID[d] \notin DOMAIN inflightTable
      /\ ~deadline[d]
      /\ AckedDialer(d) # {}
      /\ \E b \in hist.ackedB : peer[b] = d

\* C3: whenever Dial() has returned a transport without error, the Router has
\* removed the matching inflight entry, cleared the deadline on the dialer's
\* transport and sent the acknowledgement on the dialer's transport; the
\* acknowledgement on the bridge transport is written after it and may not
\* have been written yet.
C3_DialReturn ==
  \A d \in Conns :
    dstate[d] = "ok" =>
      /\ connectionID[d] \notin DOMAIN inflightTable
      /\ ~deadline[d]
      /\ AckedDialer(d) # {}

\* C3 case: Dial() has returned while the acknowledgement on the bridge
\* transport is still to be written.
C3_Witness ==
  \E d \in Conns : \E b \in AckedDialer(d) :
    /\ dstate[d] = "ok"
    /\ pc[b] = "bridge_ack_listener"
    /\ b \notin hist.ackedB

\* The Authority's answer for transport c is a denial, and the Router has
\* read c's first frame.
Denied(c) == kind[c] \in {"L", "D"} /\ ~good[c]

\* C6: the Router closes every transport whose first frame the Authority
\* denies without changing the registry or the inflight table; such a
\* transport is never bound, never given an id, its listener constructor
\* never succeeds and its Dial() never returns a transport.
C6_DeniedChangesNothing ==
  [][/\ \A c \in Conns :
          (Denied(c) /\ pc[c] = "greet" /\ pc'[c] # "greet") =>
            /\ receiverTable' = receiverTable
            /\ inflightTable' = inflightTable
            /\ nextConnectionID' = nextConnectionID
            /\ r2c' = r2c
            /\ pc'[c] = "done"
            /\ ~rOpen'[c]
     /\ \A c \in Conns :
          Denied(c)' =>
            /\ \A ch \in Channels : receiverTable'[ch] # c
            /\ \A id \in DOMAIN inflightTable' : inflightTable'[id] # c
            /\ <<chan'[c], c>> \notin hist'.bound
            /\ lstate'[c] # "open"
            /\ dstate'[c] # "ok"]_vars

\* C6 case: a denied Listen and a denied Dial have been closed and have
\* failed, and a Listen opened after them is bound and served.
C6_Witness ==
  \E l, d, c \in Conns :
    /\ Denied(l) /\ kind[l] = "L" /\ pc[l] = "done" /\ lstate[l] = "failed"
    /\ Denied(d) /\ kind[d] = "D" /\ pc[d] = "done" /\ dstate[d] = "err"
    /\ c > l /\ c > d
    /\ good[c]
    /\ receiverTable[chan[c]] = c
    /\ pc[c] = "listen_wait"

\* C4: on a completed bridge, every byte that the dialer wrote on the transport
\* returned by Dial() and that reached the Router has been read, exactly once
\* and in write order, from the listener's accepted transport by the time the
\* listener's Read returns end-of-stream.
C4_DeliveredBeforeEOF ==
  \A b \in hist.ackedB :
    (btask[b] = "accepted" /\ eof[b]) => recv[b] = sent[peer[b]]

\* The application holding end x, if x was handed to one, has closed x or its
\* Read has returned end-of-stream.
ReadEnded(x) == Established(x) => (~cOpen[x] \/ eof[x])

\* The Router has closed both half-bridges of bridge b.
BothClosed(b) ==
  IF b \in hist.ackedB
  THEN /\ isclosed[b] /\ ~rOpen[b]
       /\ isclosed[peer[b]] /\ ~rOpen[peer[b]]
  ELSE FALSE

\* b is a completed bridge and the application has closed one end of it.
EndClosed(b) ==
  IF b \in hist.ackedB THEN ~cOpen[b] \/ ~cOpen[peer[b]] ELSE FALSE

\* The reads on both ends of completed bridge b have ended.
ReadsEnded(b) ==
  IF b \in hist.ackedB THEN ReadEnded(b) /\ ReadEnded(peer[b]) ELSE FALSE

\* The registry binds the channel of listener l to l.
Holds(l) == IF chan[l] \in Channels THEN receiverTable[chan[l]] = l ELSE FALSE

\* C5: after a bridge is completed, if the application closes either end of
\* it (the transport Dial() returned or the transport Accept() returned), the
\* Router closes both half-bridges and a Read on the other end returns
\* end-of-stream.
C5_CloseReachesPeer ==
  \A b \in Conns : EndClosed(b) ~> (BothClosed(b) /\ ReadsEnded(b))

\* C5 case: one end of a completed bridge was closed by its application, the
\* Router has closed both half-bridges, and the Read on the other end has
\* returned end-of-stream.
C5_Witness ==
  \E b \in hist.ackedB : \E x, y \in {b, peer[b]} :
    /\ x # y
    /\ Established(x) /\ ~cOpen[x]
    /\ Established(y) /\ cOpen[y] /\ eof[y]
    /\ BothClosed(b)

\* C10: after a listener calls Close() the Router eventually removes the
\* channel's binding to it, and every dial for the channel issued after the
\* Close() returns an error: it never returns a transport and it does not
\* block forever.
C10_ClosedListenerFailsDials ==
  /\ \A l \in Conns : (l \in hist.userClosed) ~> ~Holds(l)
  /\ \A d \in Conns : (d \in hist.lateDial) ~> (dstate[d] = "err")
  /\ [](\A d \in hist.lateDial : dstate[d] # "ok")

\* Everything but the history.
progVars == <<identVars, netVars, routerVars, spliceVars, listenerVars,
              dstate, appVars, libVars>>

C12_CloseOnce ==
  /\ [](\A x \in Conns :
          /\ hist.closes[x] <= 1
          /\ isclosed[x] <=> hist.closes[x] = 1
          /\ isclosed[x] => ~rOpen[x]
          /\ x \in hist.reclosed => hist.closes[x] = 1)
  /\ [][\A x \in Conns :
          isclosed[x] => /\ isclosed'[x]
                         /\ ~rOpen'[x]
                         /\ hist'.closes[x] = hist.closes[x]]_vars

\* C12 case: the keep-alive task of a control connection called close() on it
\* after a handler had closed it.
C12_Witness ==
  \E x \in hist.reclosed :
    /\ kind[x] = "L"
    /\ checker[x] = "stopped"
    /\ hist.closes[x] = 1

\* A frame written by writeFrame has been read back.
ReadBack == cstate \in {"read", "closed", "dispatch"} /\ wframe # NoFrame
Fits(frame) == Len(frame.Channel) <= MaxChannelNameLength

\* C13 as stated: every frame of the five types with a channel of at most 256
\* bytes that is written and read back is read without error and equal.
C13_Stated ==
  (ReadBack /\ Fits(wframe)) => (rframe.err = "nil" /\ rframe.frame = wframe)

\* C13: a written frame with a channel of at most 256 bytes is read back
\* equal in type, connection id and channel, with every byte consumed; the
\* read returns no error exactly when the type is not Close, and for a Close
\* frame it returns EOF (empty channel) or the connection-closed error.
C13_RoundTrip ==
  (ReadBack /\ Fits(wframe)) =>
    /\ rframe.frame = wframe
    /\ rframe.rest = <<>>
    /\ rframe.err = "nil" <=> wframe.Type # proto.Close
    /\ wframe.Type = proto.Close =>
         rframe.err = (IF wframe.Channel = <<>> THEN "EOF"
                                                ELSE "connection closed")

\* C13 case: a Bridge frame with the largest id and a 256-byte channel has
\* been written and read back.
C13_Witness ==
  /\ ReadBack
  /\ wframe.Type = proto.Bridge
  /\ wframe.ConnectionID = <<MaxUint16, MaxUint16, MaxUint16, MaxUint16>>
  /\ Len(wframe.Channel) = MaxChannelNameLength
  /\ rframe.err = "nil"

\* A reader has been given a stream whose first eleven bytes are there; the
\* length field is bytes ten and eleven.
HeaderRead == cstate \in {"read", "closed", "dispatch"} /\ Len(wire) >= 11
LengthField == u16(wire[10], wire[11])

Written == cstate # "frame" /\ wframe # NoFrame

\* C15: for a frame with a channel of N <= 256 bytes the stream holds exactly
\* 11 + N bytes: the type byte, the connection id as eight bytes with the
\* most significant first, N as two bytes with the most significant first,
\* then the N channel bytes.
C15_WireLayout ==
  (Written /\ Fits(wframe)) =>
    LET N == Len(wframe.Channel) IN
    /\ Len(wire) = 11 + N
    /\ \A i \in 1..Len(wire) : wire[i] \in 0..255
    /\ wire[1] = wframe.Type
    /\ \A i \in 1..4 :
         wire[2 * i] * 256 + wire[2 * i + 1] = wframe.ConnectionID[i]
    /\ wire[10] * 256 + wire[11] = N
    /\ SubSeq(wire, 12, 11 + N) = wframe.Channel

\* C15 case: a Listen frame with id 0x0102030405060708 and a channel of 256
\* bytes has been written.
C15_Witness ==
  /\ Written
  /\ wframe.Type = proto.Listen
  /\ Len(wframe.Channel) = MaxChannelNameLength
  /\ SubSeq(wire, 2, 9) = <<1, 2, 3, 4, 5, 6, 7, 8>>

\* The dial on d waits in handleDial with its inflight entry in the table.
Pending(d) == pc[d] = "dial_wait" /\ connectionID[d] \in DOMAIN inflightTable
\* A Bridge transport bearing d's id has arrived and taken the entry.
Matched(d) == \E b \in Conns : kind[b] = "B" /\ pc[b] # "none" /\ peer[b] = d

\* C16: a pending dial whose Bridge transport does not arrive is eventually
\* given up by the Router: its inflight entry is removed, the dialer's
\* transport is closed and the dialer's Dial returns an error.
C16_DialTimesOut ==
  \A d \in Conns :
    Pending(d) ~> \/ Matched(d)
                  \/ /\ connectionID[d] \notin DOMAIN inflightTable
                     /\ ~rOpen[d]
                     /\ dstate[d] = "err"

\* The dial deadline set for id has passed.
DeadlineFired(id) == now > hist.deadlineAt[id]

\* C17: an inflight entry for id is present only if Bridge(id) has been sent
\* on the control connection, no Bridge transport has taken the entry and the
\* dial deadline has not fired; and no entry remains for a dial whose handler
\* has returned and whose transport is closed.
C17_EntryLifetime ==
  /\ \A id \in DOMAIN inflightTable :
       /\ pc[inflightTable[id]] = "dial_wait"
       /\ ~Matched(inflightTable[id])
       /\ ~DeadlineFired(id)
  /\ \A d \in Conns :
       (kind[d] = "D" /\ pc[d] = "done" /\ ~rOpen[d]) =>
         \A id \in DOMAIN inflightTable : inflightTable[id] # d

\* C18: when Dial() returns, it returns the transport only if the frame it
\* read is a Bridge frame, and when it returns an error the transport it
\* opened is closed.
C18_DialClosesOnError ==
  [][\A d \in Conns :
       (dstate[d] = "wait" /\ dstate'[d] # "wait") =>
         /\ dstate'[d] = "ok" =>
              (r2c[d] # <<>> /\ Head(r2c[d]).Type = Bridge)
         /\ dstate'[d] = "err" => ~cOpen'[d]]_vars

\* The credential that registered listener l has expired.
Expired(l) == now > GetExpirationTime(l)

\* C19: once the expiry time that the Authority reports for a registered
\* listener's credential has passed, the Router eventually closes the
\* listener's control connection and removes its binding.
C19_ExpiryEndsRegistration ==
  \A l \in Conns : (Holds(l) /\ Expired(l)) ~> (isclosed[l] /\ ~Holds(l))

\* Rule i of rules applies to the channel name: its pattern compiles and
\* matches.
Applies(rules, i, name) ==
  LET m == MatchString(rules[i].ChannelRegexp, name) IN ~m.err /\ m.matched
\* The control of a rule for a request type.
Control(rule, requestType) ==
  IF requestType = InvokeAction THEN rule.InvokeControl ELSE rule.ListenControl
\* The last rule that applies to the name has the request type's control
\* set to Allow.
LastMatchAllows(rules, requestType, name) ==
  \E i \in 1..Len(rules) :
    /\ Applies(rules, i, name)
    /\ Control(rules[i], requestType) = Allow
    /\ \A j \in (i + 1)..Len(rules) : ~Applies(rules, j, name)
\* What the claim says CheckPermission returns, with the expiry judged at t.
Permitted(t) ==
  /\ call.registered
  /\ call.property.Expire > t
  /\ LastMatchAllows(call.property.Rules, call.requestType, call.channelName)

\* C20: CheckPermission returns true exactly when the key is registered, its
\* expiry is in the future and the last rule of the key whose pattern matches
\* the channel has the action's control set to Allow: true only if that holds
\* at the call's first reading of the clock, and true whenever it holds at
\* the call's last reading of the clock.
C20_CheckPermission ==
  call.state = "returned" =>
    /\ call.result => Permitted(call.t1)
    /\ Permitted(call.t2) => call.result

\* C20 case: CheckPermission returned true for a key with two rules that both
\* match the channel, the first with the action's control Deny and the last
\* with Allow.
C20_Witness ==
  /\ call.state = "returned"
  /\ call.result
  /\ Len(call.property.Rules) = MaxRules
  /\ \A i \in 1..MaxRules : Applies(call.property.Rules, i, call.channelName)
  /\ Control(call.property.Rules[1], call.requestType) = Deny

\* C21: a CleanUp call removes every key whose expiry had passed when it was
\* called, keeps, unchanged, every key whose expiry is still in the future
\* when it returns, and adds no key.
C21_CleanUp ==
  [][(clean.state = "scanned" /\ clean'.state = "idle") =>
       /\ DOMAIN Table' \subseteq DOMAIN Table
       /\ \A h \in DOMAIN Table :
            /\ Table[h].Expire < clean.t1 => h \notin DOMAIN Table'
            /\ Table[h].Expire > now =>
                 (h \in DOMAIN Table' /\ Table'[h] = Table[h])]_vars

\* C21 case: after registrations and updates a CleanUp call has removed an
\* expired key and kept another key, which has not expired.
C21_Witness ==
  /\ clean.state = "idle"
  /\ clean.removed # {}
  /\ \E h \in clean.kept : h \in DOMAIN Table /\ Table[h].Expire > now

\* The Bridge transports that handleBridge matched with dial d.
MatchedWith(d) == {b \in Conns : kind[b] = "B" /\ peer[b] = d}

\* C22: at most one Bridge transport is matched with a dial, however many
\* present its id; a Bridge transport that finds no inflight entry is closed
\* and its handler changes nothing of the registry, the inflight table, the
\* dials or any other connection.
C22_OneBridgePerId ==
  /\ [](\A d \in Conns : Cardinality(MatchedWith(d)) <= 1)
  /\ [][\A c \in Conns :
          (kind[c] = "B" /\ pc[c] = "greet" /\ pc'[c] = "done") =>
            /\ ~rOpen'[c]
            /\ \A x \in Conns \ {c} : rOpen'[x] = rOpen[x] /\ pc'[x] = pc[x]
            /\ UNCHANGED <<receiverTable, inflightTable, nextConnectionID,
                           dstate, r2c, isclosed, peer, deadline>>]_vars

\* C22 case: two Bridge transports presented the same id; one was matched
\* with the dial and the other found no entry and was closed.
C22_Witness ==
  \E b1, b2 \in Conns :
    /\ b1 # b2
    /\ kind[b1] = "B" /\ kind[b2] = "B"
    /\ connectionID[b1] = connectionID[b2]
    /\ peer[b1] # NoConn
    /\ peer[b2] = NoConn /\ pc[b2] = "done" /\ ~rOpen[b2]

\* C23: a closed control connection that is still bound is eventually
\* unbound; when handleListen returns for connection c it removes the binding
\* of c's channel if c holds it and otherwise leaves the registry as it is.
C23_UnbindOnlyOwn ==
  /\ \A c \in Conns : (isclosed[c] /\ Holds(c)) ~> ~Holds(c)
  /\ [][\A c \in Conns :
          (pc[c] = "listen_wait" /\ pc'[c] = "done") =>
            /\ \A ch \in Channels :
                 receiverTable[ch] # c => receiverTable'[ch] = receiverTable[ch]
            /\ Holds(c) => receiverTable'[chan[c]] = NoConn]_vars

\* C23 case: a displaced holder's handler has returned while its successor
\* is bound to the channel.
C23_Witness ==
  \E c \in hist.displaced :
    /\ pc[c] = "done"
    /\ receiverTable[chan[c]] \notin {NoConn, c}
    /\ ~isclosed[receiverTable[chan[c]]]

\* ------------------------------------------- failed Bridge write (router.go 146-158)
\* Two listeners may register the one channel and one dialer dials it.
NextRedial ==
  \/ NextListen
  \/ \E c \in Conns, ch \in 1..FairChannels : DialNew(c, ch, TRUE, MaxDials)
  \/ \E c \in Conns : DialSteps(c)

SpecRedial == Init /\ [][NextRedial]_vars

\* The dial handlers whose Bridge write failed.
WriteFailed == {d \in Conns : pc[d] = "dial_failed" \/ hist.dialErr[d] = "write failed"}

\* handleListen is about to take up a Listen for a channel whose holder, if
\* any, is dead.
Reconnects(c) ==
  /\ Greeted(c, Listen)
  /\ LET h == receiverTable[Head(c2r[c]).Channel]
     IN h # NoConn => isclosed[h]

ReadsBridge(c) ==
  /\ lstate[c] = "open"
  /\ ~isClosed[c]
  /\ r2c[c] # <<>>
  /\ Head(r2c[c]).Type = Bridge
  /\ r2c'[c] = Tail(r2c[c])

\* A bridge task of listener c for id starts in this step.
StartsTask(c, id) ==
  \E b \in Conns :
    /\ btask[b] = "none"
    /\ btask'[b] = "spawned"
    /\ owner'[b] = c
    /\ connectionID'[b] = id

\* C25: for every Bridge(id) frame the control task reads while the listener
\* is open, it starts a bridge task for id, whether or not an Accept() is
\* blocked: no Bridge command is dropped.
C25_EveryBridgeStarted ==
  [][\A c \in Conns :
       ReadsBridge(c) => StartsTask(c, Head(r2c[c]).ConnectionID)]_vars

\* ----------------------------------- a failing bridge task (client.go 605-625)
\* createConnection fails (client.go 606-610): the goroutine calls
\* listener.Close() and does not return; writeFrame then runs on the transport
\* createConnection did not return (611-615), which panics.
BridgeTaskConnectFails(b) ==
  /\ btask[b] = "spawned"
  /\ isClosed' = [isClosed EXCEPT ![owner[b]] = TRUE]
  /\ hist' = IF alreadyClosed(owner[b]) THEN hist ELSE closeChans(hist, owner[b])
  /\ btask' = [btask EXCEPT ![b] = "panic"]
  /\ UNCHANGED <<identVars, netVars, routerVars, spliceVars, lstate,
                 activeAcceptors, accepts, owner, dstate, appVars, libVars>>

\* The transport is opened but the write of Bridge(id, channel) fails
\* (client.go 611-619): the goroutine closes its transport and returns; no
\* frame has reached the Router.
BridgeTaskWriteFails(b) ==
  /\ btask[b] = "spawned"
  /\ btask' = [btask EXCEPT ![b] = "failed"]
  /\ UNCHANGED <<identVars, netVars, routerVars, spliceVars, lstate, isClosed,
                 activeAcceptors, accepts, owner, dstate, appVars, libVars, hist>>

\* One listener and several dials, where a bridge goroutine may also fail to
\* connect or to write.
NextTaskFail ==
  \/ NextDial
  \/ \E b \in Conns : BridgeTaskConnectFails(b)
  \/ \E b \in Conns : BridgeTaskWriteFails(b)

SpecTaskFail == Init /\ [][NextTaskFail]_vars

\* Bridge task b stops on a failure in this step.
TaskFails(b) ==
  /\ btask[b] \in {"spawned", "wait_ack"}
  /\ btask'[b] \in {"failed", "panic"}

\* C26: when a bridge task fails at any step (opening the transport, writing
\* Bridge(id, channel), reading the acknowledgement), only that task's transport
\* is closed and the task stops without a panic: the listener stays open, its
\* control connection stays open, and the other tasks and the Accept() calls
\* are unaffected.
C26_TaskFailureIsLocal ==
  [][\A b \in Conns :
       TaskFails(b) =>
         /\ btask'[b] = "failed"
         /\ ~cOpen'[b]
         /\ isClosed' = isClosed
         /\ lstate' = lstate
         /\ cOpen'[owner[b]] = cOpen[owner[b]]
         /\ activeAcceptors' = activeAcceptors
         /\ \A x \in Conns \ {b} : btask'[x] = btask[x]]_vars

\* ------------------------------- control task shutdown (client.go 586-597)
\* The read of the control task of listener c fails in this step: readFrame
\* returns an error, which it also does for a Close frame (bin.go 78-84).
ControlReadFails(c) ==
  /\ lstate[c] = "open"
  /\ ~isClosed[c]
  /\ ClientReadFails(c) \/ (ClientCanRead(c) /\ ~readFrameOK(Head(r2c[c])))
  /\ lstate'[c] # lstate[c]

CheckerStops(c) == checker[c] \in {"run", "probing"} /\ checker'[c] = "stopped"

\* The probe of connection c that is under way succeeds in this step.
ProbeAnswered(c) == checker[c] = "probing" /\ checker'[c] = "run"

\* C28: the keep-alive task makes one probe per tick; a probe succeeds only by
\* reading an answer, the first failing probe makes the task call close() and
\* stop for good; once the closed signal has fired the task starts no probe
\* and stops; and a registered listener whose control task has stopped is
\* eventually closed by the Router and unregistered.
C28_KeepAlive ==
  /\ [][\A c \in Conns :
          /\ ProbeAnswered(c) =>
                /\ RouterCanRead(c)
                /\ readFrameOK(Head(c2r[c]))
                /\ c2r'[c] = Tail(c2r[c])
          /\ CheckerStops(c) => isclosed'[c]
          /\ checker[c] = "stopped" => checker'[c] = "stopped"
          /\ (isclosed[c] /\ checker[c] = "run") => checker'[c] # "probing"]_vars
  /\ \A c \in Conns :
       (isclosed[c] /\ checker[c] # "none") ~> (checker[c] = "stopped")
  /\ \A c \in Conns :
       (lstate[c] = "stopped" /\ checker[c] # "none") ~>
         (isclosed[c] /\ ~Holds(c) /\ checker[c] = "stopped")

\* C28 case: a listener that was bound, that its application has closed and
\* whose control task has stopped, has been closed by its keep-alive task and
\* is unregistered.
C28_Witness ==
  \E c \in hist.userClosed :
    /\ <<chan[c], c>> \in hist.bound
    /\ c \notin hist.displaced
    /\ lstate[c] = "stopped"
    /\ checker[c] = "stopped"
    /\ isclosed[c]
    /\ pc[c] = "done"
    /\ ~Holds(c)

\* ------------------------------ routerConnection, step by step (part_002 21-39)
\* The frames the Router writes on a control connection: the probe's Nop and
\* handleDial's Bridge(id).
ConnFrames == {Frame(proto.Nop, ZeroID, <<>>), Frame(proto.Bridge, <<0, 0, 0, 1>>, <<>>),
               Frame(proto.Bridge, <<0, 0, 0, 2>>, <<>>)}

\* The Write calls of bin.go writeFrame (52-60) and writeBytes (23-33), in
\* order: the type byte, the connection id, the length, the channel.
writes(frame) ==
  << <<frame.Type>>, be64(frame.ConnectionID),
     be16(uint16(Len(frame.Channel))), frame.Channel >>

\* conn.mu.Lock() (part_002 22, 33): the mutex is free.
lockFree == TRUE
canLock == mc.mu = NoWriter

\* The test of writeFrame under the mutex (part_002 35).
seesOpen == FALSE
seesClosed == mc.isclosed

\* writeFrame is called by goroutine t with frame f and takes the mutex
\* (part_002 32-33).
ConnWriteLock(t, f) ==
  /\ mc.task[t].pc = "idle"
  /\ mc.calls < MaxWrites
  /\ canLock
  /\ mc' = [mc EXCEPT !.mu = t, !.calls = @ + 1,
                       !.task[t] = [pc |-> "locked", frame |-> f, k |-> 0,
                                    err |-> "none", at |-> 0]]
  /\ UNCHANGED <<sysVars, codecVars, keyVars, now, svc, zl>>

\* writeFrame tests isclosed (part_002 35-37): closed, it returns the error;
\* open, it goes on to the codec's writeFrame (38).
ConnWriteTest(t) ==
  /\ mc.task[t].pc = "locked"
  /\ mc' = IF seesClosed
           THEN [mc EXCEPT !.task[t].pc = "unlock",
                           !.task[t].err = "connection is already closed"]
           ELSE [mc EXCEPT !.task[t].pc = "writing",
                           !.task[t].at = Len(mc.log) + 1,
                           !.log = Append(@, [frame |-> mc.task[t].frame, n |-> 0])]
  /\ UNCHANGED <<sysVars, codecVars, keyVars, now, svc, zl>>

\* One Write of the codec's writeFrame on the transport (bin.go 53-59, 24-32):
\* on a closed transport it fails and writeFrame returns; else the bytes go on
\* the transport, and after the last Write writeFrame returns nil.
ConnWriteChunk(t) ==
  /\ mc.task[t].pc = "writing"
  /\ LET k == mc.task[t].k + 1
         b == writes(mc.task[t].frame)[k]
     IN mc' = IF ~mc.open
              THEN [mc EXCEPT !.task[t].pc = "unlock",
                              !.task[t].err = "use of closed network connection"]
              ELSE [mc EXCEPT !.out = @ \o b,
                              !.log[mc.task[t].at].n = @ + Len(b),
                              !.task[t].k = k,
                              !.task[t].pc = IF k = 4 THEN "unlock" ELSE "writing",
                              !.task[t].err = IF k = 4 THEN "nil" ELSE "none"]
  /\ UNCHANGED <<sysVars, codecVars, keyVars, now, svc, zl>>

\* The deferred conn.mu.Unlock() of writeFrame (part_002 34).
ConnWriteReturn(t) ==
  /\ mc.task[t].pc = "unlock"
  /\ mc' = [mc EXCEPT !.mu = IF @ = t THEN NoWriter ELSE @,
                       !.task[t].pc = "idle"]
  /\ UNCHANGED <<sysVars, codecVars, keyVars, now, svc, zl>>

\* close() (part_002 21-30), by any goroutine: under the mutex, the first call
\* closes the transport and Closed and sets isclosed; a later call returns.
ConnClose ==
  /\ canLock
  /\ mc.closed < MaxCloses
  /\ mc' = IF mc.isclosed
           THEN [mc EXCEPT !.closed = @ + 1]
           ELSE [mc EXCEPT !.closed = @ + 1, !.open = FALSE, !.isclosed = TRUE]
  /\ UNCHANGED <<sysVars, codecVars, keyVars, now, svc, zl>>

NextConn ==
  \/ \E t \in Writers, f \in ConnFrames : ConnWriteLock(t, f)
  \/ \E t \in Writers : ConnWriteTest(t)
  \/ \E t \in Writers : ConnWriteChunk(t)
  \/ \E t \in Writers : ConnWriteReturn(t)
  \/ ConnClose

SpecConn == Init /\ [][NextConn]_vars

\* The bytes of the first n frames started on the connection, as far as each
\* has been written, in the order the writes were started.
RECURSIVE Started(_)
Started(n) ==
  IF n = 0 THEN <<>>
  ELSE Started(n - 1) \o SubSeq(writeFrame(mc.log[n].frame), 1, mc.log[n].n)

\* The frames a reader gets from stream r with the codec's readFrame, and
\* whether the stream ends on a frame boundary.
RECURSIVE Decode(_)
Decode(r) ==
  IF r = <<>> THEN [frames |-> <<>>, whole |-> TRUE]
  ELSE LET f == readFrame(r) IN
       IF f.err # "nil" THEN [frames |-> <<>>, whole |-> FALSE]
       ELSE LET d == Decode(f.rest) IN
            [frames |-> <<f.frame>> \o d.frames, whole |-> d.whole]

\* C29: frames written through writeFrame on one managed connection by
\* concurrent goroutines never interleave: every frame but the one being
\* written is on the transport whole, the bytes on the transport are the
\* frames in the order their writes began, and while no write is under way a
\* reader decodes exactly those frames.
C29_NoInterleave ==
  /\ \A i \in 1..Len(mc.log) :
       \/ mc.log[i].n = Len(writeFrame(mc.log[i].frame))
       \/ /\ i = Len(mc.log)
          /\ \E t \in Writers : mc.task[t].pc = "writing" /\ mc.task[t].at = i
  /\ mc.out = Started(Len(mc.log))
  /\ (\A t \in Writers : mc.task[t].pc # "writing") =>
       /\ Decode(mc.out).whole
       /\ Decode(mc.out).frames = [i \in 1..Len(mc.log) |-> mc.log[i].frame]

\* C29 case: both goroutines have written, one of them while the other held
\* a frame to write, and three whole frames are on the transport.
C29_Witness ==
  /\ Len(mc.log) = MaxWrites
  /\ \A t \in Writers : mc.task[t].pc = "idle" /\ mc.task[t].err = "nil"
  /\ Len(Decode(mc.out).frames) = MaxWrites
  /\ \E i, j \in 1..Len(mc.log) : mc.log[i].frame # mc.log[j].frame

\* C30: writeFrame on a closed managed connection fails with the closed error
\* and puts no byte on the transport, however the write calls and the close
\* calls interleave: no write is under way when the connection is closed, and
\* after the close the bytes on the transport never change.
C30_ClosedWriteFails ==
  /\ [][\A t \in Writers :
          (mc.isclosed /\ mc.task[t].pc = "locked" /\ mc'.task[t].pc # "locked") =>
            /\ mc'.task[t].pc = "unlock"
            /\ mc'.task[t].err = "connection is already closed"]_vars
  /\ [][mc.isclosed => mc'.out = mc.out]_vars
  /\ [](\A t \in Writers : mc.task[t].pc = "writing" => ~mc.isclosed)
  /\ [](\A t \in Writers : mc.task[t].err \in {"none", "nil", "connection is already closed"})

\* C30 case: a frame was written, the connection was closed, and a later
\* writeFrame call has returned the closed error.
C30_Witness ==
  /\ mc.isclosed
  /\ mc.out # <<>>
  /\ \E t \in Writers :
       /\ mc.task[t].pc = "idle"
       /\ mc.task[t].err = "connection is already closed"

\* ------------------------------------ Router.mu and I/O (router.go 99-110)
\* The handler of transport c is inside probe(), between the write of the Nop
\* and the read of the answer (part_002 54-57).
InProbe(c) == pc[c] = "probe_read"

\* C31: no Router task performs a frame read or write, a probe included, while
\* it holds the registry lock: no handler is inside a probe while it is the
\* holder of Router.mu.
C31_NoIOUnderLock ==
  \A c \in Conns : InProbe(c) => mu # c

\* The tasks that are reading a frame from the Router's end of connection h:
\* its keep-alive task inside probe() (part_002 57), and the handlers of new
\* Listens inside the probe of holder h (router.go 101).
Readers(h) ==
  (IF checker[h] = "probing" THEN {<<"checker", h>>} ELSE {})
    \cup {<<"handler", c>> : c \in {x \in Conns : InProbe(x) /\ peer[x] = h}}

\* C32: at any instant at most one task reads from a given managed connection;
\* the probe of the keep-alive task and the displacement probe made for a new
\* Listen never read the same control connection at the same time.
C32_SingleReader ==
  \A h \in Conns : Cardinality(Readers(h)) <= 1

\* ------------------------------------- handleBridge returns (router.go 190-204)
\* C33: the bridge handler returns only after both copy loops (dialer to
\* listener and listener to dialer) have exited, and both half-bridges are
\* closed when it returns.
C33_ReturnsAfterBothLoops ==
  \A b \in hist.ackedB :
    pc[b] = "done" =>
      /\ copyBD[b] = "exit"
      /\ copyDB[b] = "exit"
      /\ BothClosed(b)

\* ------------------------ CommandServiceContext (part_003 354-365, 394-402)
\* The send on the buffered channel ctx.tokens (part_003 397) can proceed: the
\* channel, of capacity MaxInflights, is not full.
noLimit == TRUE
hasRoom == svc.tokens < MaxInflights

\* FullFillRequestWithCallback is called with request r (part_003 396) and
\* reaches the send on ctx.tokens.
SvcCall(r) ==
  /\ svc.req[r] = "new"
  /\ svc' = [svc EXCEPT !.req[r] = "sending"]
  /\ UNCHANGED <<sysVars, codecVars, keyVars, now, mc, zl>>

\* The send succeeds, the goroutine is started and the call returns (397-398).
SvcSend(r) ==
  /\ svc.req[r] = "sending"
  /\ hasRoom
  /\ svc' = [svc EXCEPT !.tokens = @ + 1, !.req[r] = "running"]
  /\ UNCHANGED <<sysVars, codecVars, keyVars, now, mc, zl>>

\* The goroutine: FullFillRequest returns the response (400).
SvcFulfil(r) ==
  /\ svc.req[r] = "running"
  /\ svc' = [svc EXCEPT !.req[r] = "fulfilled"]
  /\ UNCHANGED <<sysVars, codecVars, keyVars, now, mc, zl>>

\* The goroutine calls done with the response (400).
SvcDone(r) ==
  /\ svc.req[r] = "fulfilled"
  /\ svc' = [svc EXCEPT !.req[r] = "in done", !.done[r] = @ + 1]
  /\ UNCHANGED <<sysVars, codecVars, keyVars, now, mc, zl>>

\* done returns.
SvcDoneReturns(r) ==
  /\ svc.req[r] = "in done"
  /\ svc' = [svc EXCEPT !.req[r] = "returning"]
  /\ UNCHANGED <<sysVars, codecVars, keyVars, now, mc, zl>>

\* The deferred receive from ctx.tokens (399); the goroutine ends.
SvcRelease(r) ==
  /\ svc.req[r] = "returning"
  /\ svc' = [svc EXCEPT !.tokens = @ - 1, !.req[r] = "finished"]
  /\ UNCHANGED <<sysVars, codecVars, keyVars, now, mc, zl>>

NextSvc ==
  \/ \E r \in Requests : SvcCall(r)
  \/ \E r \in Requests : SvcSend(r)
  \/ \E r \in Requests : SvcFulfil(r)
  \/ \E r \in Requests : SvcDone(r)
  \/ \E r \in Requests : SvcDoneReturns(r)
  \/ \E r \in Requests : SvcRelease(r)

\* The interpreter and the done callback return, and the scheduler runs every
\* goroutine.
FairnessSvc ==
  \A r \in Requests :
    /\ WF_vars(SvcSend(r))
    /\ WF_vars(SvcFulfil(r))
    /\ WF_vars(SvcDone(r))
    /\ WF_vars(SvcDoneReturns(r))
    /\ WF_vars(SvcRelease(r))

SpecSvc == Init /\ [][NextSvc]_vars /\ FairnessSvc

\* The requests being processed: accepted, and their done callback has not
\* returned.
InProcess == {r \in Requests : svc.req[r] \in {"running", "fulfilled", "in done"}}

\* The accepted requests.
Accepted == {r \in Requests : svc.req[r] \notin {"new", "sending"}}

\* C34: at most MaxInflights requests submitted through
\* FullFillRequestWithCallback are being processed at any instant; a call made
\* while MaxInflights are being processed is accepted only after the done
\* callback of a running request has returned; and the done callback of every
\* accepted request is invoked, exactly once.
C34_BoundedInflight ==
  /\ [](Cardinality(InProcess) <= MaxInflights)
  /\ [][\A r \in Requests :
          (svc.req[r] = "sending" /\ svc'.req[r] # "sending") =>
            Cardinality(InProcess) < MaxInflights]_vars
  /\ [](\A r \in Requests :
          /\ svc.done[r] <= 1
          /\ svc.done[r] = 1 => r \in Accepted
          /\ svc.req[r] \in {"in done", "returning", "finished"} => svc.done[r] = 1)
  /\ \A r \in Requests : (r \in Accepted) ~> (svc.done[r] = 1)

\* C34 case: every request has been accepted and its done callback has
\* returned, with more requests than tokens.
C34_Witness ==
  /\ NumRequests > MaxInflights
  /\ \A r \in Requests : svc.req[r] = "finished" /\ svc.done[r] = 1
  /\ svc.tokens = 0

\* ------------------------------ keep-alive of a healthy listener (part_002 51-78)
\* Listener c is healthy: both ends of its control transport are open, nobody
\* has closed the listener, and its constructor or its control task is running.
Healthy(c) ==
  /\ cOpen[c] /\ rOpen[c]
  /\ ~isClosed[c] /\ ~isclosed[c]
  /\ lstate[c] \in {"handshake", "open"}

\* A Nop written to listener c has not been read by it yet.
NopUnread(c) == \E i \in 1..Len(r2c[c]) : r2c[c][i].Type = Nop

\* C35: a listener whose control task answers every Nop it reads with a Nop,
\* and whose transport does not fail, is never closed by the keep-alive: a
\* probe of a healthy listener, the first one after registration included,
\* fails only while the listener has yet to read the probe's Nop.
C35_HealthyProbeSucceeds ==
  [][\A c \in Conns :
       (checker[c] = "probing" /\ checker'[c] = "stopped" /\ Healthy(c)) =>
         NopUnread(c)]_vars

\* ------------------------------ listener constructor (client.go 494-528)
\* The constructor of listener c has returned a listener.
Constructed(c) == lstate[c] \in {"open", "stopped"}

\* C36: the listener constructor returns success only after the Router has
\* bound the channel to this listener's control connection; when the Router
\* rejects the Listen (permission denied or channel busy) the constructor
\* never returns a listener.
C36_ConstructorAfterBind ==
  \A c \in Conns :
    /\ Constructed(c) => <<chan[c], c>> \in hist.bound
    /\ (Denied(c) \/ c \in hist.busy) => ~Constructed(c)

\* C36 case: one constructor has returned a listener that is bound, and the
\* constructor of a rejected Listen has failed.
C36_Witness ==
  \E h, c \in Conns :
    /\ Constructed(h) /\ receiverTable[chan[h]] = h
    /\ kind[c] = "L" /\ (Denied(c) \/ c \in hist.busy)
    /\ lstate[c] = "failed"

\* --------------------------- handoff and Close (client.go 548-558, 604-642)
\* C37: however Listener.Close() or a shutdown caused by a control read error
\* interleaves with the bridge tasks in progress, no bridge task sends on the
\* handoff channel after it has been closed (the send would panic), so that a
\* transport whose bridge handshake completed is returned by an Accept() or
\* closed, never left open with a crashed task.
C37_NoSendAfterClose ==
  \A b \in Conns : btask[b] # "panic"

\* ------------------------------- who presents the id (router.go 164-176)
\* The control connection the Router sent Bridge(id) to for dial d.
AskedFor(d) == peer[d]

\* C38: a dialer is spliced only with a bridge transport opened by the
\* listener to which the Router sent Bridge(id) for this dial; a Bridge frame
\* presenting that id from any other connection is not spliced to the dialer.
C38_SplicedWithAskedListener ==
  \A b \in hist.ackedB : owner[b] = AskedFor(peer[b])

\* -------------------- failed acknowledgements of handleBridge (router.go 170-188)
\* The dialing process goes away while Dial waits for the acknowledgement
\* (client.go 455): its end of the transport is closed.
DialerGone(d) ==
  /\ dstate[d] = "wait"
  /\ cOpen[d]
  /\ cOpen' = [cOpen EXCEPT ![d] = FALSE]
  /\ r2c' = Drop(r2c, cOpen')
  /\ dstate' = [dstate EXCEPT ![d] = "err"]
  /\ UNCHANGED <<identVars, c2r, rOpen, deadline, routerVars, spliceVars,
                 listenerVars, appVars, libVars, hist>>

\* The transport of a bridge task breaks while the task waits for the
\* acknowledgement (client.go 620-625): the task closes it and ends.
BridgeGone(b) ==
  /\ btask[b] = "wait_ack"
  /\ cOpen[b]
  /\ cOpen' = [cOpen EXCEPT ![b] = FALSE]
  /\ r2c' = Drop(r2c, cOpen')
  /\ btask' = [btask EXCEPT ![b] = "failed"]
  /\ UNCHANGED <<identVars, c2r, rOpen, deadline, routerVars, spliceVars,
                 lstate, isClosed, activeAcceptors, accepts, owner, dstate,
                 appVars, libVars, hist>>

\* One listener, one dial and its bridge handshake, where the dialer or the
\* bridge transport may go away before the acknowledgements; every goroutine
\* that can take a step eventually takes one.
NextAck ==
  \/ \E c \in Conns, ch \in 1..FairChannels : ListenerNew(c, ch, TRUE, 1)
  \/ \E c \in Conns, ch \in 1..FairChannels : DialNew(c, ch, TRUE, 1)
  \/ \E c \in Conns : Accept(c, FairAccepts)
  \/ \E c \in Conns : ListenSteps(c)
  \/ \E c \in Conns : DialSteps(c)
  \/ \E c \in Conns : ListenerSteps(c)
  \/ \E c \in Conns : HandshakeSteps(c)
  \/ \E d \in Conns : DialerGone(d)
  \/ \E b \in Conns : BridgeGone(b)

SpecAck == Init /\ [][NextAck]_vars /\ FairnessClose

\* handleBridge removed the inflight entry for Bridge transport b and then
\* failed to write an acknowledgement: it has returned without splicing.
AckFailed(b) ==
  /\ kind[b] = "B"
  /\ peer[b] # NoConn
  /\ pc[b] = "done"
  /\ b \notin hist.ackedB

\* The dialer's transport and Bridge transport b are closed by the Router and
\* the dial handler has returned.
TornDown(b) ==
  IF peer[b] = NoConn THEN FALSE
  ELSE /\ ~rOpen[b]
       /\ ~rOpen[peer[b]]
       /\ pc[peer[b]] = "done"

\* C39: if the Router removes an inflight entry for an arriving Bridge and
\* then fails to write the acknowledgement to the dialer or to the bridge
\* transport, both transports are closed and the dial handler waiting on the
\* dialer returns: no dial handler stays blocked forever.
C39_AckFailureTearsDown ==
  \A b \in Conns : AckFailed(b) ~> TornDown(b)

\* -------------------- common.ReadWithZlib (marshal.go 32-59)
\* marshal.go 41: the largest packet size ReadWithZlib accepts.
MaxPacket == 8192

\* A 16-bit half of the 4-byte big-endian size header.
Half == 65536

\* The header halves and the payload lengths the streams are built from.
HighHalves == {0, 1, 32767, 32768, 65534, 65535}
LowHalves == {0, 1, 8191, 8192, 8193, 65535}
PayloadLens == {0, 1, 8191, 8192}

\* A stream: hdr of the 4 header bytes are there before EOF (high half hi,
\* low half lo), followed by avail payload bytes that are (good) or are not
\* a zlib stream of a gob value.
Streams ==
  [hdr : {0, 2, 4}, hi : HighHalves, lo : LowHalves, avail : PayloadLens,
   good : BOOLEAN]

\* marshal.go 34-35: binary.Read of a big-endian int32 (two's complement).
bufSize(s) ==
  IF s.hi >= Half \div 2 THEN (s.hi - Half) * Half + s.lo
  ELSE s.hi * Half + s.lo

\* marshal.go 33-59: what one call does with stream s. err is the returned
\* error, alloc the length of the buffer made at line 44, panic whether the
\* call ended in a run-time panic instead of returning.
ReadWithZlib(s) ==
  IF s.hdr = 0
    THEN [err |-> "EOF", alloc |-> 0, panic |-> FALSE]
  ELSE IF s.hdr < 4
    THEN [err |-> "cannot determine next packet size", alloc |-> 0,
          panic |-> FALSE]
  ELSE IF bufSize(s) > MaxPacket
    THEN [err |-> "packet size too large", alloc |-> 0, panic |-> FALSE]
  ELSE IF bufSize(s) < 0
    THEN [err |-> "none", alloc |-> 0, panic |-> TRUE]
  ELSE IF s.avail < bufSize(s)
    THEN [err |-> IF s.avail = 0 THEN "EOF" ELSE "unexpected EOF",
          alloc |-> bufSize(s), panic |-> FALSE]
  ELSE IF ~s.good
    THEN [err |-> "error while decoding data", alloc |-> bufSize(s),
          panic |-> FALSE]
  ELSE [err |-> "nil", alloc |-> bufSize(s), panic |-> FALSE]

\* A caller hands a stream to ReadWithZlib (part_003 233, 238).
ZlibCall(s) ==
  /\ zl.state = "idle"
  /\ zl' = [state |-> "called", stream |-> s]
  /\ UNCHANGED <<sysVars, codecVars, keyVars, now, mc, svc>>

\* The call runs to its end.
ZlibRead ==
  /\ zl.state = "called"
  /\ zl' = [state |-> "ended", stream |-> zl.stream,
            result |-> ReadWithZlib(zl.stream)]
  /\ UNCHANGED <<sysVars, codecVars, keyVars, now, mc, svc>>

NextZlib ==
  \/ \E s \in Streams : ZlibCall(s)
  \/ ZlibRead

SpecZlib == Init /\ [][NextZlib]_vars

\* C40: for every declared 32-bit signed packet size outside 0..8192,
\* negative sizes included, ReadWithZlib returns an error, without making a
\* buffer and without a panic.
C40_OutOfRangeRejected ==
  zl.state = "ended" /\ zl.stream.hdr = 4
                    /\ bufSize(zl.stream) \notin 0..MaxPacket
    => /\ zl.result.err \notin {"nil", "none"}
       /\ zl.result.alloc = 0
       /\ ~zl.result.panic
====
